---- MODULE Spec2Model ----
(***************************************************************************)
(* Model of modal/modal_app.py: the recurrence engine                      *)
(* (get_timezone_offset_hours, calculate_next_run_at, is_prompt_due), the  *)
(* scheduler cycle (check_scheduled_prompts), the execution coordinator    *)
(* (execute_prompt), the publish gate (check_repo_changes,                 *)
(* push_repo_changes) and the job endpoints (api_dispatch_job,             *)
(* api_get_job_status).                                                    *)
(***************************************************************************)
EXTENDS Integers, Sequences, FiniteSets, TLC

VARIABLES
    calcPc,       \* position of the recurrence-engine harness
    calcPrompt,   \* the prompt dict handed to calculate_next_run_at
    calcNow,      \* datetime.now(timezone.utc) at the evaluation
    tzdata,       \* whether the image holds a time zone database for zoneinfo
    calcResult,   \* what calculate_next_run_at returned or raised
    calcDue,      \* is_prompt_due(prompt with nextRunAt = result, result)
    repos,        \* the repos volume: project name -> working directory
    upstream,     \* the upstream repositories: project name -> commits of main
    commitCount,  \* commits created so far (names the next commit)
    last,         \* the last operation: its arguments, what it did, its result
    store,        \* the scheduled-prompts Dict: prompts and settings
    clock,        \* the current UTC time
    sched,        \* check_scheduled_prompts in progress: its locals and position
    cycle,        \* how the last finished cycle ended and what it wrote back
    budget,       \* clock ticks and syncs still allowed
    jobs          \* the execute_prompt calls spawned: job id -> its execution

calcVars == <<calcPc, calcPrompt, calcNow, tzdata, calcResult, calcDue>>

repoVars == <<repos, upstream, commitCount, last>>

schedVars == <<store, clock, sched, cycle, budget>>

jobVars == <<jobs>>

vars == <<calcPc, calcPrompt, calcNow, tzdata, calcResult, calcDue,
          repos, upstream, commitCount, last, store, clock, sched, cycle, budget, jobs>>

-----------------------------------------------------------------------------
(* Python values.  A dict key that is absent, None or "" is the empty      *)
(* tuple for tuple-valued keys and Missing for integer keys.               *)

Missing == -1

NoValue == <<>>

Returned(v) == [raised |-> FALSE, value |-> v]

Raised(e) == [raised |-> TRUE, exc |-> e]

-----------------------------------------------------------------------------
(* datetime: aware UTC datetimes as records of civil fields.  second       *)
(* stands for the sub-minute part (second and microsecond together).       *)

DateTime(y, mo, d, h, mi, s) ==
    [year |-> y, month |-> mo, day |-> d, hour |-> h, minute |-> mi, second |-> s]

IsLeap(y) == (y % 4 = 0) /\ ((y % 100 # 0) \/ (y % 400 = 0))

DaysInMonth(y, m) ==
    IF m = 2 THEN (IF IsLeap(y) THEN 29 ELSE 28)
    ELSE IF m \in {4, 6, 9, 11} THEN 30 ELSE 31

DaysBeforeYear(y) ==
    (y - 1) * 365 + ((y - 1) \div 4) - ((y - 1) \div 100) + ((y - 1) \div 400)

RECURSIVE DaysBeforeMonth(_, _)
DaysBeforeMonth(y, m) ==
    IF m = 1 THEN 0 ELSE DaysBeforeMonth(y, m - 1) + DaysInMonth(y, m - 1)

\* date.toordinal(): 0001-01-01 is day 1
ToOrdinal(dt) == DaysBeforeYear(dt.year) + DaysBeforeMonth(dt.year, dt.month) + dt.day

\* ordinal of 2000-01-01, the origin of Stamp (keeps Stamp inside 32 bits)
StampOrigin == ToOrdinal(DateTime(2000, 1, 1, 0, 0, 0))

\* seconds since 2000-01-01T00:00:00Z: the value datetimes are ordered by
Stamp(dt) ==
    (((ToOrdinal(dt) - StampOrigin) * 24 + dt.hour) * 60 + dt.minute) * 60 + dt.second

\* datetime.weekday(): Monday = 0 .. Sunday = 6
Weekday(dt) == (ToOrdinal(dt) + 6) % 7

NextDay(dt) ==
    IF dt.day < DaysInMonth(dt.year, dt.month)
    THEN [dt EXCEPT !.day = dt.day + 1]
    ELSE IF dt.month < 12
         THEN [dt EXCEPT !.month = dt.month + 1, !.day = 1]
         ELSE [dt EXCEPT !.year = dt.year + 1, !.month = 1, !.day = 1]

PrevDay(dt) ==
    IF dt.day > 1
    THEN [dt EXCEPT !.day = dt.day - 1]
    ELSE IF dt.month > 1
         THEN [dt EXCEPT !.month = dt.month - 1,
                         !.day = DaysInMonth(dt.year, dt.month - 1)]
         ELSE [dt EXCEPT !.year = dt.year - 1, !.month = 12, !.day = 31]

\* dt + timedelta(days = n)
RECURSIVE AddDays(_, _)
AddDays(dt, n) ==
    IF n = 0 THEN dt
    ELSE IF n > 0 THEN AddDays(NextDay(dt), n - 1)
    ELSE AddDays(PrevDay(dt), n + 1)

\* datetime.replace(year=, month=, day=): ValueError when the day does not
\* exist in the month
ReplaceDate(dt, y, mo, d) ==
    IF mo \in 1..12 /\ d >= 1 /\ d <= DaysInMonth(y, mo)
    THEN Returned([dt EXCEPT !.year = y, !.month = mo, !.day = d])
    ELSE Raised("ValueError")

\* datetime.replace(hour=, minute=, second=0, microsecond=0)
ReplaceTime(dt, h, mi) ==
    IF h \in 0..23 /\ mi \in 0..59
    THEN Returned([dt EXCEPT !.hour = h, !.minute = mi, !.second = 0])
    ELSE Raised("ValueError")

\* datetime.isoformat() of an aware UTC datetime: "YYYY-MM-DDTHH:MM:SS+00:00",
\* as the tuple of its parts
IsoFormat(dt) == <<dt.year, dt.month, dt.day, dt.hour, dt.minute, dt.second, "+00:00">>

\* str.replace("Z", "+00:00") on an ISO string
ReplaceZ(s) == IF Len(s) = 7 /\ s[7] = "Z" THEN [s EXCEPT ![7] = "+00:00"] ELSE s

\* datetime.fromisoformat: ValueError on text that is no ISO date; the result
\* is aware (tz TRUE) only when the text carries an offset
FromIsoFormat(s) ==
    IF /\ Len(s) \in {6, 7}
       /\ s[2] \in 1..12
       /\ s[3] >= 1 /\ s[3] <= DaysInMonth(s[1], s[2])
       /\ s[4] \in 0..23 /\ s[5] \in 0..59 /\ s[6] \in 0..59
       /\ (Len(s) = 7 => s[7] = "+00:00")
    THEN Returned([dt |-> DateTime(s[1], s[2], s[3], s[4], s[5], s[6]),
                   aware |-> Len(s) = 7])
    ELSE Raised("ValueError")

-----------------------------------------------------------------------------
(* get_timezone_offset_hours.  Offsets are kept in minutes; the float      *)
(* number of hours the code works with is minutes / 60.                    *)

\* the zones of the model; "Mars/Olympus" is a name no database resolves
Timezones ==
    {"UTC", "America/Los_Angeles", "America/St_Johns", "Asia/Tokyo",
     "Asia/Kolkata", "Pacific/Kiritimati", "Mars/Olympus"}

\* daylight saving time of the northern American zones, to the month
InDst(dt) == dt.month \in 4..10

\* ZoneInfo(tz_name), astimezone, utcoffset(): the zone's offset at dt;
\* KeyError-like failure for a name the database does not hold
ZoneInfoOffset(tz, dt) ==
    CASE tz = "UTC" -> Returned(0)
      [] tz = "America/Los_Angeles" -> Returned(IF InDst(dt) THEN -420 ELSE -480)
      [] tz = "America/St_Johns" -> Returned(IF InDst(dt) THEN -150 ELSE -210)
      [] tz = "Asia/Tokyo" -> Returned(540)
      [] tz = "Asia/Kolkata" -> Returned(330)
      [] tz = "Pacific/Kiritimati" -> Returned(840)
      [] OTHER -> Raised("ZoneInfoNotFoundError")

\* tz_offsets.get(tz_name, 0): the fallback table, in minutes
FallbackOffset(tz) ==
    CASE tz = "America/Los_Angeles" -> -480
      [] tz = "America/New_York" -> -300
      [] tz = "America/Chicago" -> -360
      [] tz = "America/Denver" -> -420
      [] tz = "Europe/London" -> 0
      [] tz = "Europe/Paris" -> 60
      [] tz = "Asia/Tokyo" -> 540
      [] tz = "UTC" -> 0
      [] OTHER -> 0

\* a lookup without the table: every failure of ZoneInfo gives UTC
GetTimezoneOffsetUtcOnFailure(tz, dt, tzdb) ==
    LET z == IF tzdb THEN ZoneInfoOffset(tz, dt) ELSE Raised("ZoneInfoNotFoundError")
    IN  IF z.raised THEN 0 ELSE z.value

\* get_timezone_offset_hours(tz_name, dt), in minutes.  tzdb: whether the
\* image holds a time zone database (without one every ZoneInfo() raises).
GetTimezoneOffset(tz, dt, tzdb) ==
    LET z == IF tzdb THEN ZoneInfoOffset(tz, dt) ELSE Raised("ZoneInfoNotFoundError")
    IN  IF z.raised THEN FallbackOffset(tz) ELSE z.value

-----------------------------------------------------------------------------
(* calculate_next_run_at                                                   *)

\* int(x) of the float x = m / 60: truncation toward zero
IntHours(m) == IF m >= 0 THEN m \div 60 ELSE -((-m) \div 60)

\* int((x % 1) * 60) of the float x = m / 60: Python's % takes the sign of
\* the divisor, so x % 1 is the fraction above floor(x)
FracMinutes(m) == m % 60

\* prompt.get(key, default)
Get(v, default) == IF v = Missing THEN default ELSE v

GetStr(v, default) == IF v = "<missing>" THEN default ELSE v

\* the conversion with the offset added to the local time
ToUtcAddsOffset(hour, minute, offset) ==
    LET h0 == hour + IntHours(offset)
        m0 == minute + FracMinutes(offset)
        m1 == IF m0 < 0 THEN m0 + 60 ELSE IF m0 >= 60 THEN m0 - 60 ELSE m0
        h1 == IF m0 < 0 THEN h0 - 1 ELSE IF m0 >= 60 THEN h0 + 1 ELSE h0
        h2 == IF h1 < 0 THEN h1 + 24 ELSE IF h1 >= 24 THEN h1 - 24 ELSE h1
        dd == IF h1 < 0 THEN -1 ELSE IF h1 >= 24 THEN 1 ELSE 0
    IN  [utc_hour |-> h2, utc_minute |-> m1, day_offset |-> dd]

\* lines 972-992: local time of day to UTC hour, minute and day offset
ToUtc(hour, minute, offset) ==
    LET h0 == hour - IntHours(offset)
        m0 == minute - FracMinutes(offset)
        m1 == IF m0 < 0 THEN m0 + 60 ELSE IF m0 >= 60 THEN m0 - 60 ELSE m0
        h1 == IF m0 < 0 THEN h0 - 1 ELSE IF m0 >= 60 THEN h0 + 1 ELSE h0
        h2 == IF h1 < 0 THEN h1 + 24 ELSE IF h1 >= 24 THEN h1 - 24 ELSE h1
        dd == IF h1 < 0 THEN -1 ELSE IF h1 >= 24 THEN 1 ELSE 0
    IN  [utc_hour |-> h2, utc_minute |-> m1, day_offset |-> dd]

\* lines 1003-1005
NextDaily(next_run, now) ==
    IF Stamp(next_run) <= Stamp(now) THEN AddDays(next_run, 1) ELSE next_run

\* lines 1007-1015
NextWeekly(next_run, now, dayOfWeek) ==
    LET target_day == Get(dayOfWeek, 1)
        current_day_sun == (Weekday(next_run) + 1) % 7
        d0 == (target_day - current_day_sun) % 7
        days_until == IF d0 = 0 /\ Stamp(next_run) <= Stamp(now) THEN 7 ELSE d0
    IN  AddDays(next_run, days_until)

\* lines 1017-1025
NextMonthly(next_run, now, dayOfMonth) ==
    LET target_day == Get(dayOfMonth, 1)
        r1 == ReplaceDate(next_run, next_run.year, next_run.month, target_day)
    IN  IF r1.raised THEN r1
        ELSE IF Stamp(r1.value) <= Stamp(now)
             THEN IF r1.value.month = 12
                  THEN ReplaceDate(r1.value, r1.value.year + 1, 1, r1.value.day)
                  ELSE ReplaceDate(r1.value, r1.value.year, r1.value.month + 1,
                                   r1.value.day)
             ELSE r1

\* lines 1027-1030
NextYearly(next_run, now) ==
    LET r1 == ReplaceDate(next_run, next_run.year, 1, 1)
    IN  IF Stamp(r1.value) <= Stamp(now)
        THEN ReplaceDate(r1.value, r1.value.year + 1, 1, 1)
        ELSE r1

\* calculate_next_run_at(prompt) evaluated when datetime.now(timezone.utc)
\* is now: the ISO string it returns, or the exception it raises
CalculateNextRunAt(prompt, now, tzdb) ==
    LET time_parts == IF prompt.timeOfDay = NoValue THEN <<9, 0>> ELSE prompt.timeOfDay
        hour == time_parts[1]
        minute == IF Len(time_parts) > 1 THEN time_parts[2] ELSE 0
        user_timezone == GetStr(prompt.timezone, "UTC")
        offset == GetTimezoneOffset(user_timezone, now, tzdb)
        u == ToUtc(hour, minute, offset)
        anchor == ReplaceTime(now, u.utc_hour, u.utc_minute)
    IN  IF anchor.raised THEN anchor
        ELSE
        LET next_run == IF u.day_offset # 0
                        THEN AddDays(anchor.value, u.day_offset)
                        ELSE anchor.value
            schedule_type == GetStr(prompt.scheduleType, "daily")
            r == CASE schedule_type = "daily" -> Returned(NextDaily(next_run, now))
                   [] schedule_type = "weekly" ->
                        Returned(NextWeekly(next_run, now, prompt.dayOfWeek))
                   [] schedule_type = "monthly" ->
                        NextMonthly(next_run, now, prompt.dayOfMonth)
                   [] schedule_type = "yearly" -> NextYearly(next_run, now)
                   [] OTHER -> Returned(next_run)
        IN  IF r.raised THEN r ELSE Returned(IsoFormat(r.value))

-----------------------------------------------------------------------------
(* is_prompt_due                                                           *)

\* is_prompt_due with a strict comparison
IsPromptDueStrict(prompt, now) ==
    IF ~prompt.enabled THEN FALSE
    ELSE IF prompt.nextRunAt = NoValue THEN FALSE
    ELSE LET parsed == FromIsoFormat(ReplaceZ(prompt.nextRunAt))
         IN  IF parsed.raised THEN FALSE
             ELSE IF ~parsed.value.aware THEN FALSE
             ELSE Stamp(parsed.value.dt) < Stamp(now)

\* is_prompt_due(prompt, now); comparing a naive datetime with the aware now
\* raises TypeError, which the function catches like ValueError
IsPromptDue(prompt, now) ==
    IF ~prompt.enabled THEN FALSE
    ELSE IF prompt.nextRunAt = NoValue THEN FALSE
    ELSE LET parsed == FromIsoFormat(ReplaceZ(prompt.nextRunAt))
         IN  IF parsed.raised THEN FALSE
             ELSE IF ~parsed.value.aware THEN FALSE
             ELSE Stamp(parsed.value.dt) <= Stamp(now)

-----------------------------------------------------------------------------
(* The repos volume and git.  A working directory /repos/<project_name> is *)
(* absent, a valid checkout, or invalid (present, but git rev-parse fails  *)
(* in it).  A branch is the set of commits reachable from it.  The working *)
(* tree's uncommitted changes are "m" (edits of tracked files) and "u"     *)
(* (untracked files).                                                      *)

Projects == {"p1"}

\* commits that may be created in one behaviour
MaxCommits == 2

\* the values uuid.uuid4() may return
Uuids == {"u1"}

\* session_id = None
NoSession == "<none>"

\* the session_id arguments a caller may pass: none, the empty string, an
\* id an earlier run returned, an id minted elsewhere
SessionArgs == {NoSession, ""} \cup Uuids \cup {"s9"}

Commit(n, by) == [n |-> n, by |-> by]

\* the commit every upstream repository starts from
BaseCommit == Commit(0, "upstream")

AbsentRepo ==
    [dir |-> "absent", junk |-> FALSE, head |-> {}, origin |-> {}, changes |-> {}]

\* a directory that is no checkout: what is in it is not a work tree git knows
InvalidRepo ==
    [dir |-> "invalid", junk |-> TRUE, head |-> {}, origin |-> {}, changes |-> {}]

\* work_dir.exists()
WorkDirExists(r) == r.dir # "absent"

\* git rev-parse --git-dir: returncode == 0
GitRevParse(r) == r.dir = "valid"

\* git stash: shelves the edits of tracked files; untracked files stay
GitStash(r) == [r EXCEPT !.changes = r.changes \ {"m"}]

\* git fetch origin main: on success origin/main is upstream's main
GitFetch(r, up, ok) == IF ok THEN [r EXCEPT !.origin = up] ELSE r

\* git reset --hard origin/main: untracked files stay
GitResetHard(r) == [r EXCEPT !.head = r.origin, !.changes = r.changes \ {"m"}]

\* a repair in place instead of the removal: git is made to accept the
\* directory, and what was in it stays
RepairInPlace(r) == [r EXCEPT !.dir = "valid"]

\* rm -rf work_dir
RmRf(r) == AbsentRepo

\* a clone that leaves what it had fetched when it fails
GitCloneLeavesPartial(up, ok) ==
    IF ok
    THEN [dir |-> "valid", junk |-> FALSE, head |-> up, origin |-> up, changes |-> {}]
    ELSE InvalidRepo

\* git clone clone_url work_dir: a failed clone removes the directory it made
GitClone(up, ok) ==
    IF ok
    THEN [dir |-> "valid", junk |-> FALSE, head |-> up, origin |-> up, changes |-> {}]
    ELSE AbsentRepo

\* git status --porcelain: stdout
GitStatus(r) == r.changes

\* git add -A without the commit
GitAddOnly(r, c) == r

\* git add -A; git commit -m ...
GitAddCommit(r, c) == [r EXCEPT !.head = r.head \cup {c}, !.changes = {}]

\* git log origin/main..HEAD --oneline: stdout (empty outside a checkout)
GitLogUnpushed(r) == IF r.dir = "valid" THEN r.head \ r.origin ELSE {}

\* git push push_url HEAD:main: accepted when it fast-forwards upstream's main
\* and the remote is reachable; a push to a URL moves no remote-tracking ref
GitPushAccepted(r, up, ok) == ok /\ up \subseteq r.head

-----------------------------------------------------------------------------
(* execute_prompt                                                          *)

\* the session handling with the test of is_continuation at line 460 left
\* out: every call on a valid checkout stashes, fetches and resets
EnsureSessionAlwaysSyncs(r, up, is_continuation, cloneOk, fetchOk) ==
    LET valid == WorkDirExists(r) /\ GitRevParse(r)
        stashed == GitStash(r)
        fetched == GitFetch(stashed, up, fetchOk)
        synced == IF fetchOk THEN GitResetHard(fetched) ELSE fetched
        r1 == IF ~WorkDirExists(r) THEN r
              ELSE IF valid THEN synced ELSE RmRf(r)
        ops1 == IF ~WorkDirExists(r) THEN {}
                ELSE IF valid
                     THEN {"set-url", "stash", "fetch"}
                          \cup (IF fetchOk THEN {"reset"} ELSE {})
                     ELSE {"rm"}
        cloning == ~WorkDirExists(r1)
        r2 == IF cloning THEN GitClone(up, cloneOk) ELSE r1
        ops2 == IF cloning THEN ops1 \cup {"clone"} ELSE ops1
    IN  [repo |-> r2, ops |-> ops2, raised |-> cloning /\ ~cloneOk]

\* the preparation with a clone whose exit status is not looked at
EnsureSessionUncheckedClone(r, up, is_continuation, cloneOk, fetchOk) ==
    LET cloning == ~(WorkDirExists(r) /\ GitRevParse(r))
    IN  IF cloning
        THEN [repo |-> GitClone(up, cloneOk),
              ops |-> (IF WorkDirExists(r) THEN {"rm"} ELSE {}) \cup {"clone"},
              raised |-> FALSE]
        ELSE [repo |-> r, ops |-> {"set-url"}, raised |-> FALSE]

\* the preparation that gives up the checkout when the fetch fails: the
\* directory is removed and cloned again
EnsureSessionFetchOrReclone(r, up, is_continuation, cloneOk, fetchOk) ==
    LET valid == WorkDirExists(r) /\ GitRevParse(r)
        fresh == valid /\ ~is_continuation
        synced == GitResetHard(GitFetch(GitStash(r), up, fetchOk))
        r1 == IF ~WorkDirExists(r) THEN r
              ELSE IF valid
                   THEN (IF is_continuation THEN r
                         ELSE IF fetchOk THEN synced ELSE RmRf(r))
                   ELSE RmRf(r)
        ops1 == IF ~WorkDirExists(r) THEN {}
                ELSE IF valid
                     THEN (IF is_continuation THEN {"set-url"}
                           ELSE {"set-url", "stash", "fetch"}
                                \cup (IF fetchOk THEN {"reset"} ELSE {"rm"}))
                     ELSE {"rm"}
        cloning == ~WorkDirExists(r1)
        r2 == IF cloning THEN GitClone(up, cloneOk) ELSE r1
        ops2 == IF cloning THEN ops1 \cup {"clone"} ELSE ops1
    IN  [repo |-> r2, ops |-> ops2, raised |-> cloning /\ ~cloneOk]

\* lines 450-525: the working directory the agent is to run in.
\* ops: the git commands run; raised: CalledProcessError of a failed clone
EnsureSession(r, up, is_continuation, cloneOk, fetchOk) ==
    LET valid == WorkDirExists(r) /\ GitRevParse(r)
        stashed == GitStash(r)
        fetched == GitFetch(stashed, up, fetchOk)
        synced == IF fetchOk THEN GitResetHard(fetched) ELSE fetched
        r1 == IF ~WorkDirExists(r) THEN r
              ELSE IF valid
                   THEN (IF is_continuation THEN r ELSE synced)
                   ELSE RmRf(r)
        ops1 == IF ~WorkDirExists(r) THEN {}
                ELSE IF valid
                     THEN (IF is_continuation THEN {"set-url"}
                           ELSE {"set-url", "stash", "fetch"}
                                \cup (IF fetchOk THEN {"reset"} ELSE {}))
                     ELSE {"rm"}
        cloning == ~WorkDirExists(r1)
        r2 == IF cloning THEN GitClone(up, cloneOk) ELSE r1
        ops2 == IF cloning THEN ops1 \cup {"clone"} ELSE ops1
    IN  [repo |-> r2, ops |-> ops2, raised |-> cloning /\ ~cloneOk]

\* what may go wrong in the bookkeeping: nothing, a git command raises
\* (caught and logged at 632), or git commit exits non-zero (its returncode
\* is printed at 613 and not acted on)
GitFaults == {"none", "raise", "commit"}

\* the bookkeeping with a push of the commit it created
BookkeepingPushes(r, up, success, gitFault, c) ==
    IF ~success
    THEN [repo |-> r, upstream |-> up, pending |-> FALSE, ops |-> {}]
    ELSE IF gitFault = "raise"
    THEN [repo |-> r, upstream |-> up, pending |-> FALSE, ops |-> {"status"}]
    ELSE IF GitStatus(r) # {}
         THEN [repo |-> IF gitFault = "commit" THEN r ELSE GitAddCommit(r, c),
               upstream |-> IF gitFault = "commit" THEN up ELSE GitAddCommit(r, c).head,
               pending |-> TRUE,
               ops |-> {"status", "add", "commit", "push"}]
         ELSE [repo |-> r, upstream |-> up, pending |-> GitLogUnpushed(r) # {},
               ops |-> {"status", "log"}]

\* the bookkeeping without the test of success at line 573
BookkeepingAnyExit(r, up, success, gitFault, c) ==
    IF gitFault = "raise"
    THEN [repo |-> r, upstream |-> up, pending |-> FALSE, ops |-> {"status"}]
    ELSE IF GitStatus(r) # {}
         THEN [repo |-> IF gitFault = "commit" THEN r ELSE GitAddCommit(r, c),
               upstream |-> up, pending |-> TRUE,
               ops |-> {"status", "add", "commit"}]
         ELSE [repo |-> r, upstream |-> up, pending |-> GitLogUnpushed(r) # {},
               ops |-> {"status", "log"}]

\* lines 571-635: the bookkeeping after the agent returned: the working
\* directory, upstream (no command of the block writes to it),
\* has_pending_changes and the git commands run
Bookkeeping(r, up, success, gitFault, c) ==
    IF ~success
    THEN [repo |-> r, upstream |-> up, pending |-> FALSE, ops |-> {}]
    ELSE IF gitFault = "raise"
    THEN [repo |-> r, upstream |-> up, pending |-> FALSE, ops |-> {"status"}]
    ELSE IF GitStatus(r) # {}
         THEN [repo |-> IF gitFault = "commit" THEN r ELSE GitAddCommit(r, c),
               upstream |-> up, pending |-> TRUE,
               ops |-> {"status", "add", "commit"}]
         ELSE [repo |-> r, upstream |-> up, pending |-> GitLogUnpushed(r) # {},
               ops |-> {"status", "log"}]

\* an except branch that reports no session id
FailureResultWithoutSession(session_id, error) ==
    [sessionId |-> "", success |-> FALSE, error |-> error,
     hasPendingChanges |-> "absent"]

\* the result dict of the except branches (lines 709-737)
FailureResult(session_id, error) ==
    [sessionId |-> session_id, success |-> FALSE, error |-> error,
     hasPendingChanges |-> "absent"]

\* the result dict of line 701
ExecutionResult(session_id, success, pending) ==
    [sessionId |-> session_id, success |-> success, error |-> "",
     hasPendingChanges |-> IF pending THEN "true" ELSE "false"]

NoRun == [dir |-> "none", junk |-> FALSE, head |-> {}, origin |-> {}, changes |-> {}]

\* execute_prompt with a bookkeeping whose git failures are not caught: they
\* reach the except branch at 729 and the call returns a failure
ExecutePromptGitFailureFails(r, up, session_arg, uuid, cloneOk, fetchOk, agent, edits, gitFault, c) ==
    LET is_continuation == session_arg # NoSession
        session_id == IF session_arg \in {NoSession, ""} THEN uuid ELSE session_arg
        es == EnsureSession(r, up, is_continuation, cloneOk, fetchOk)
        seen == es.repo
        ran == [seen EXCEPT !.changes = seen.changes \cup edits]
        success == agent = "ok"
        bk == Bookkeeping(ran, up, success, gitFault, c)
    IN  IF es.raised
        THEN [repo |-> es.repo, upstream |-> up, ops |-> es.ops, agentSaw |-> NoRun,
              session_id |-> session_id,
              continueFlag |-> FALSE, is_continuation |-> is_continuation,
              volumeCommit |-> FALSE, reposCommit |-> FALSE,
              result |-> FailureResult(session_id, "Command failed")]
        ELSE IF agent \in {"timeout", "error"} \/ (success /\ gitFault = "raise")
        THEN [repo |-> ran, upstream |-> up,
              ops |-> es.ops \cup (IF success THEN bk.ops ELSE {}), agentSaw |-> seen,
              session_id |-> session_id,
              continueFlag |-> is_continuation, is_continuation |-> is_continuation,
              volumeCommit |-> success, reposCommit |-> FALSE,
              result |-> FailureResult(session_id,
                                       IF agent = "timeout" THEN "timed out"
                                       ELSE "Unexpected error")]
        ELSE [repo |-> bk.repo, upstream |-> bk.upstream, ops |-> es.ops \cup bk.ops,
              agentSaw |-> seen, session_id |-> session_id,
              continueFlag |-> is_continuation, is_continuation |-> is_continuation,
              volumeCommit |-> TRUE, reposCommit |-> TRUE,
              result |-> ExecutionResult(session_id, success, bk.pending)]

\* execute_prompt(prompt, project_repo, project_name, session_id, ...) on the
\* working directory r with upstream up.
\*   uuid: what uuid.uuid4() returns;  cloneOk, fetchOk: the remote answers;
\*   agent: "ok" (exit 0), "fail" (exit # 0), "timeout" (TimeoutExpired) or
\*   "error" (another exception once the agent was started);  edits: what the
\*   agent leaves in the work tree;  gitFault: what goes wrong in the
\*   bookkeeping;  c: the name of the commit git would create
ExecutePrompt(r, up, session_arg, uuid, cloneOk, fetchOk, agent, edits, gitFault, c) ==
    LET is_continuation == session_arg # NoSession
        session_id == IF session_arg \in {NoSession, ""} THEN uuid ELSE session_arg
        es == EnsureSession(r, up, is_continuation, cloneOk, fetchOk)
        seen == es.repo
        ran == [seen EXCEPT !.changes = seen.changes \cup edits]
        success == agent = "ok"
        bk == Bookkeeping(ran, up, success, gitFault, c)
    IN  IF es.raised
        THEN [repo |-> es.repo, upstream |-> up, ops |-> es.ops, agentSaw |-> NoRun,
              session_id |-> session_id,
              continueFlag |-> FALSE, is_continuation |-> is_continuation,
              volumeCommit |-> FALSE, reposCommit |-> FALSE,
              result |-> FailureResult(session_id, "Command failed")]
        ELSE IF agent \in {"timeout", "error"}
        THEN [repo |-> ran, upstream |-> up, ops |-> es.ops, agentSaw |-> seen,
              session_id |-> session_id,
              continueFlag |-> is_continuation, is_continuation |-> is_continuation,
              volumeCommit |-> FALSE, reposCommit |-> FALSE,
              result |-> FailureResult(session_id,
                                       IF agent = "timeout" THEN "timed out"
                                       ELSE "Unexpected error")]
        ELSE [repo |-> bk.repo, upstream |-> bk.upstream, ops |-> es.ops \cup bk.ops,
              agentSaw |-> seen, session_id |-> session_id,
              continueFlag |-> is_continuation, is_continuation |-> is_continuation,
              volumeCommit |-> TRUE, reposCommit |-> TRUE,
              result |-> ExecutionResult(session_id, success, bk.pending)]

-----------------------------------------------------------------------------
(* check_repo_changes and push_repo_changes                                *)

\* check_repo_changes(project_name)
CheckRepoChanges(r) ==
    IF ~WorkDirExists(r)
    THEN [hasPendingChanges |-> FALSE, exists |-> FALSE,
          uncommittedFiles |-> {}, unpushedCommits |-> {}]
    ELSE IF ~GitRevParse(r)
    THEN [hasPendingChanges |-> FALSE, exists |-> TRUE,
          uncommittedFiles |-> {}, unpushedCommits |-> {}]
    ELSE [hasPendingChanges |-> (GitStatus(r) # {} \/ GitLogUnpushed(r) # {}),
          exists |-> TRUE,
          uncommittedFiles |-> GitStatus(r), unpushedCommits |-> GitLogUnpushed(r)]

\* what git push writes to stderr when it fails: nothing, or the remote's text
PushStderrs == {"", "remote: rejected"}

\* a push_repo_changes that reports every failed push with its own words
PushRepoChangesOwnWords(r, up, pushOk, stderr) ==
    LET commits_to_push == GitLogUnpushed(r)
    IN  IF ~WorkDirExists(r)
        THEN [upstream |-> up, pushed |-> FALSE, reposCommit |-> FALSE,
              result |-> [success |-> FALSE, pushedCommits |-> {},
                          error |-> "No repo found"]]
        ELSE IF commits_to_push = {}
        THEN [upstream |-> up, pushed |-> FALSE, reposCommit |-> FALSE,
              result |-> [success |-> TRUE, pushedCommits |-> {}, error |-> ""]]
        ELSE IF GitPushAccepted(r, up, pushOk)
        THEN [upstream |-> r.head, pushed |-> TRUE, reposCommit |-> TRUE,
              result |-> [success |-> TRUE, pushedCommits |-> commits_to_push,
                          error |-> ""]]
        ELSE [upstream |-> up, pushed |-> TRUE, reposCommit |-> FALSE,
              result |-> [success |-> FALSE, pushedCommits |-> {},
                          error |-> "Push failed"]]

\* push_repo_changes(project_name, repo_url): the new upstream, whether git
\* push ran, and the result dict.  stderr: what a failing git push writes
PushRepoChanges(r, up, pushOk, stderr) ==
    LET commits_to_push == GitLogUnpushed(r)
    IN  IF ~WorkDirExists(r)
        THEN [upstream |-> up, pushed |-> FALSE, reposCommit |-> FALSE,
              result |-> [success |-> FALSE, pushedCommits |-> {},
                          error |-> "No repo found"]]
        ELSE IF commits_to_push = {}
        THEN [upstream |-> up, pushed |-> FALSE, reposCommit |-> FALSE,
              result |-> [success |-> TRUE, pushedCommits |-> {}, error |-> ""]]
        ELSE IF GitPushAccepted(r, up, pushOk)
        THEN [upstream |-> r.head, pushed |-> TRUE, reposCommit |-> TRUE,
              result |-> [success |-> TRUE, pushedCommits |-> commits_to_push,
                          error |-> ""]]
        ELSE [upstream |-> up, pushed |-> TRUE, reposCommit |-> FALSE,
              result |-> [success |-> FALSE, pushedCommits |-> {},
                          error |-> IF stderr # "" THEN stderr ELSE "Push failed"]]

-----------------------------------------------------------------------------
(* The operations on the repos volume, each run to completion.  last keeps *)
(* what the operation was given, what it ran and what it returned.         *)

NoOp ==
    [op |-> "none", project |-> "", session_arg |-> NoSession, agent |-> "none",
     before |-> NoRun, edits |-> {}, gitFault |-> "none",
     ops |-> {}, agentSaw |-> NoRun, session_id |-> "", continueFlag |-> FALSE,
     is_continuation |-> FALSE, volumeCommit |-> FALSE, reposCommit |-> FALSE,
     pushed |-> FALSE, stderr |-> "", result |-> [success |-> FALSE]]

AgentOutcomes == {"ok", "fail", "timeout", "error"}

\* execute_prompt calls spawned in one behaviour
MaxJobs == 2

\* the ids of the function calls (FunctionCall.object_id)
JobIds == 1..MaxJobs

\* a function call that has not been made
NoJob ==
    [phase |-> "none", project |-> "", session_arg |-> NoSession,
     session_id |-> "", success |-> FALSE, result |-> [success |-> FALSE]]

NoJobs == [j \in JobIds |-> NoJob]

\* what an agent run may leave in the work tree: nothing, an edit of a
\* tracked file ("m") or a new, untracked file ("u"); both are in the tree
\* together after two runs
AgentEdits == {{}, {"m"}, {"u"}}

\* the record last of an execute_prompt call on working directory r, with
\* inputs in, that did x
ExecuteRecord(p, r, session_arg, in, x) ==
    [op |-> "execute", project |-> p, session_arg |-> session_arg,
     agent |-> IF x.agentSaw = NoRun THEN "none" ELSE in.agent,
     before |-> r, edits |-> in.edits, gitFault |-> in.gitFault,
     session_id |-> x.session_id,
     ops |-> x.ops, agentSaw |-> x.agentSaw, continueFlag |-> x.continueFlag,
     is_continuation |-> x.is_continuation, volumeCommit |-> x.volumeCommit,
     reposCommit |-> x.reposCommit, pushed |-> FALSE, stderr |-> "",
     result |-> x.result]

\* the inputs of one execute_prompt run on working directory r that can
\* change what it does: the others are fixed, so that no run is drawn twice.
\* edits and faults are the agent edits and the git faults to draw from
ExecuteInputs(r, session_arg, edits, faults) ==
    LET valid == WorkDirExists(r) /\ GitRevParse(r)
        cloning == ~valid
        fetching == valid /\ session_arg = NoSession
        uuids == IF session_arg \in {NoSession, ""} THEN Uuids ELSE {session_arg}
    IN  \* the clone fails: no agent run
        { [uuid |-> u, cloneOk |-> FALSE, fetchOk |-> TRUE, agent |-> "ok",
           edits |-> {}, gitFault |-> "none"] : u \in (IF cloning THEN uuids ELSE {}) }
        \cup \* the agent exits with status 0: the bookkeeping runs
        { [uuid |-> u, cloneOk |-> TRUE, fetchOk |-> fo, agent |-> "ok", edits |-> e,
           gitFault |-> gf] :
            u \in uuids, fo \in (IF fetching THEN BOOLEAN ELSE {TRUE}),
            e \in edits, gf \in faults }
        \cup \* the agent fails: no bookkeeping
        { [uuid |-> u, cloneOk |-> TRUE, fetchOk |-> fo, agent |-> a, edits |-> e,
           gitFault |-> "none"] :
            u \in uuids, fo \in (IF fetching THEN BOOLEAN ELSE {TRUE}),
            a \in AgentOutcomes \ {"ok"}, e \in edits }

\* the draws of ExecuteInputs that differ in nothing: no agent run and an
\* agent outcome, no bookkeeping and a fault in it, no commit attempted and
\* a failing commit
Redundant(in, x) ==
    \/ x.agentSaw = NoRun /\ ~(in.agent = "ok" /\ in.edits = {})
    \/ in.agent # "ok" /\ in.gitFault # "none"
    \/ in.gitFault = "commit" /\ "commit" \notin x.ops

\* execute_prompt for project p, on demand, with the session ids, agent
\* edits and git faults drawn from args, edits and faults
ExecuteWith(p, args, edits, faults) ==
    /\ commitCount < MaxCommits
    /\ \E session_arg \in args :
       \E in \in ExecuteInputs(repos[p], session_arg, edits, faults) :
       \E x \in {ExecutePrompt(repos[p], upstream[p], session_arg, in.uuid, in.cloneOk,
                               in.fetchOk, in.agent, in.edits, in.gitFault,
                               Commit(commitCount + 1,
                                      IF session_arg \in {NoSession, ""} THEN in.uuid
                                      ELSE session_arg))} :
            /\ ~Redundant(in, x)
            /\ repos' = [repos EXCEPT ![p] = x.repo]
            /\ upstream' = [upstream EXCEPT ![p] = x.upstream]
            /\ commitCount' = IF x.repo.head \subseteq repos[p].head \cup upstream[p]
                               THEN commitCount ELSE commitCount + 1
            /\ last' = ExecuteRecord(p, repos[p], session_arg, in, x)
    /\ UNCHANGED <<calcVars, schedVars, jobVars>>

\* api_dispatch_job: execute_prompt for project p, on demand
Execute(p) == ExecuteWith(p, SessionArgs, AgentEdits, GitFaults)

\* api_check_changes: check_repo_changes for project p
CheckChanges(p) ==
    /\ last' = [NoOp EXCEPT !.op = "check", !.project = p,
                            !.result = CheckRepoChanges(repos[p])]
    /\ UNCHANGED <<repos, upstream, commitCount, calcVars, schedVars, jobVars>>

\* api_push_changes: push_repo_changes for project p
Push(p) ==
    \E pushOk \in BOOLEAN :
    \E stderr \in PushStderrs :
        LET x == PushRepoChanges(repos[p], upstream[p], pushOk, stderr)
        IN  /\ upstream' = [upstream EXCEPT ![p] = x.upstream]
            /\ last' = [NoOp EXCEPT !.op = "push", !.project = p,
                                    !.ops = IF x.pushed THEN {"log", "push"} ELSE {"log"},
                                    !.pushed = x.pushed,
                                    !.stderr = IF x.pushed /\ ~x.result.success
                                               THEN stderr ELSE "",
                                    !.reposCommit = x.reposCommit,
                                    !.result = x.result]
            /\ UNCHANGED <<repos, commitCount, calcVars, schedVars, jobVars>>

\* someone else pushes a commit to the upstream repository of project p
UpstreamAdvance(p) ==
    /\ commitCount < MaxCommits
    /\ upstream' = [upstream EXCEPT ![p] = @ \cup {Commit(commitCount + 1, "upstream")}]
    /\ commitCount' = commitCount + 1
    /\ last' = [NoOp EXCEPT !.op = "upstream", !.project = p]
    /\ UNCHANGED <<repos, calcVars, schedVars, jobVars>>


-----------------------------------------------------------------------------
(* check_scheduled_prompts.  The cycle is a process: it reads the Dict,    *)
(* handles one prompt per step (a step holds the blocking call of          *)
(* execute_prompt.remote) and writes the prompt list back at the end.      *)

\* a scheduled prompt as the authoring surface stores it
Prompt(id, enabled, tz, tod, kind, dow, dom, nextRunAt, url, name) ==
    [id |-> id, enabled |-> enabled, timezone |-> tz, timeOfDay |-> tod,
     scheduleType |-> kind, dayOfWeek |-> dow, dayOfMonth |-> dom,
     nextRunAt |-> nextRunAt, gitRemoteUrl |-> url, projectName |-> name,
     lastExecution |-> NoValue]

\* dt + timedelta(minutes = n)
AddMinutes(dt, n) ==
    LET t == dt.hour * 60 + dt.minute + n
    IN  AddDays([dt EXCEPT !.hour = (t % 1440) \div 60, !.minute = t % 60], t \div 1440)

IdleSched ==
    [pc |-> "idle", now |-> NoValue, prompts |-> <<>>, i |-> 0, executed |-> <<>>,
     errors |-> <<>>, ntfy_topic |-> "", calls |-> <<>>, ntfy |-> <<>>]

NoCycle ==
    [outcome |-> "none", now |-> NoValue, checked |-> 0, executed |-> <<>>,
     errors |-> <<>>, saved |-> FALSE, calls |-> <<>>, loaded |-> <<>>,
     written |-> <<>>]

\* what a request to ntfy.sh does: answered with status 200, or not (another
\* status, or the request raises)
NtfyOutcomes == {"ok", "failed"}

\* one notification request, as the service sees it
Notification(by, kind, post) == [by |-> by, kind |-> kind, delivered |-> post = "ok"]

\* an execute_prompt whose ntfy request is not guarded: its exception
\* reaches the except branch of line 728
ExecuteNotifyUnguarded(result, ntfy_topic, post) ==
    IF result.hasPendingChanges = "absent" \/ ntfy_topic = ""
    THEN [result |-> result, ntfy |-> <<>>]
    ELSE [result |-> IF post = "ok" THEN result
                     ELSE FailureResult(result.sessionId, "Unexpected error"),
          ntfy |-> <<Notification("execute_prompt", "completion", post)>>]

\* lines 658-699: the ntfy request of an execute_prompt that reached line
\* 641 (the except branches return before it), and the dict it then
\* returns at 701: a request that fails is printed
ExecuteNotify(result, ntfy_topic, post) ==
    IF result.hasPendingChanges = "absent" \/ ntfy_topic = ""
    THEN [result |-> result, ntfy |-> <<>>]
    ELSE [result |-> result,
          ntfy |-> <<Notification("execute_prompt", "completion", post)>>]

\* what the request of execute_prompt may do: one outcome when none is sent
PostOutcomes(result, ntfy_topic) ==
    IF ExecuteNotify(result, ntfy_topic, "ok").ntfy = <<>> THEN {"ok"} ELSE NtfyOutcomes

\* result.get("_ntfy_sent") at line 1207
NtfySentFlag(result) ==
    IF "_ntfy_sent" \in DOMAIN result THEN result["_ntfy_sent"] ELSE FALSE

\* lines 1158-1169, 1205-1218 and 1233-1244: the scheduler's own request,
\* in a try whose except prints the failure
SchedulerNotify(ntfy_topic, kind, post) ==
    IF ntfy_topic = "" THEN <<>> ELSE <<Notification("scheduler", kind, post)>>

\* what the scheduler sends for an attempt a on the result of execute_prompt:
\* the completion notification at the end of the try block, the error
\* notification at the end of the except block, nothing when the cycle is
\* left by an exception
AttemptNotify(a, remote, ntfy_topic, post) ==
    IF a.aborted THEN <<>>
    ELSE IF a.error THEN SchedulerNotify(ntfy_topic, "error", post)
    ELSE IF ~NtfySentFlag(remote.value) THEN SchedulerNotify(ntfy_topic, "completion", post)
    ELSE <<>>

\* lines 1198-1202 and 1226-1230: the lastExecution entry
LastExecution(now, status, session_id, error) ==
    [timestamp |-> IsoFormat(now), status |-> status, sessionId |-> session_id,
     error |-> error]

\* a scheduler that treats a prompt as done once it ran
RecordResultDisablesPrompt(prompt, now, result) ==
    [prompt EXCEPT !.enabled = FALSE,
                   !.lastExecution =
                        LastExecution(now, IF result.success THEN "success" ELSE "failed",
                                      result.sessionId, "")]

\* lines 1187-1203: what the try block does with the result of execute_prompt
\* before calculate_next_run_at is called
RecordResult(prompt, now, result) ==
    [prompt EXCEPT !.lastExecution =
        LastExecution(now, IF result.success THEN "success" ELSE "failed",
                      result.sessionId, "")]

\* lines 1220-1230: what the except block does before calculate_next_run_at
RecordError(prompt, now, error) ==
    [prompt EXCEPT !.lastExecution = LastExecution(now, "failed", "", error)]

\* prompt["nextRunAt"] = calculate_next_run_at(prompt), evaluated at calcNow
SetNextRunAt(prompt, next) == [prompt EXCEPT !.nextRunAt = next.value]

\* lines 1173-1244 for a due prompt with its fields present.
\*   remote: Returned(result) of execute_prompt.remote or Raised;
\*   calcAt: datetime.now() when calculate_next_run_at runs.
\* aborted: the exception of calculate_next_run_at left the except block
AttemptPrompt(prompt, now, remote, calcAt, tzdb) ==
    LET inTry == IF remote.raised THEN prompt ELSE RecordResult(prompt, now, remote.value)
        next1 == CalculateNextRunAt(inTry, calcAt, tzdb)
        tryFailed == remote.raised \/ next1.raised
        inExcept == RecordError(inTry, now,
                                IF remote.raised THEN remote.exc ELSE next1.exc)
        next2 == CalculateNextRunAt(inExcept, calcAt, tzdb)
    IN  IF ~tryFailed
        THEN [prompt |-> SetNextRunAt(inTry, next1), executed |-> TRUE,
              error |-> FALSE, aborted |-> FALSE]
        ELSE IF ~next2.raised
        THEN [prompt |-> SetNextRunAt(inExcept, next2), executed |-> ~remote.raised,
              error |-> TRUE, aborted |-> FALSE]
        ELSE [prompt |-> inExcept, executed |-> ~remote.raised,
              error |-> TRUE, aborted |-> TRUE]

\* lines 1099-1124: the cycle starts
CycleStart ==
    /\ sched.pc = "idle"
    /\ IF store.prompts = <<>>
       THEN /\ cycle' = [NoCycle EXCEPT !.outcome = "empty", !.now = clock]
            /\ UNCHANGED sched
       ELSE /\ sched' = [pc |-> "loop", now |-> clock, prompts |-> store.prompts,
                         i |-> 1, executed |-> <<>>, errors |-> <<>>,
                         ntfy_topic |-> store.settings.ntfyTopic, calls |-> <<>>,
                         ntfy |-> <<>>]
            /\ cycle' = [NoCycle EXCEPT !.outcome = "running", !.now = clock,
                                        !.loaded = store.prompts]
    /\ UNCHANGED <<store, clock, budget, repoVars, calcVars, jobVars>>

\* lines 1132-1139: the prompt is disabled or not due
CycleSkip ==
    /\ sched.pc = "loop" /\ sched.i <= Len(sched.prompts)
    /\ LET prompt == sched.prompts[sched.i]
       IN  ~prompt.enabled \/ ~IsPromptDue(prompt, sched.now)
    /\ sched' = [sched EXCEPT !.i = @ + 1, !.ntfy = <<>>]
    /\ UNCHANGED <<store, clock, cycle, budget, repoVars, calcVars, jobVars>>

\* a cycle that moves the schedule of a misconfigured prompt on
CycleMisconfiguredReschedules ==
    /\ sched.pc = "loop" /\ sched.i <= Len(sched.prompts)
    /\ LET prompt == sched.prompts[sched.i]
           next == CalculateNextRunAt(prompt, sched.now, tzdata)
       IN  /\ prompt.enabled /\ IsPromptDue(prompt, sched.now)
           /\ prompt.gitRemoteUrl = "" \/ prompt.projectName = ""
           /\ \E post \in IF sched.ntfy_topic = "" THEN {"ok"} ELSE NtfyOutcomes :
                sched' = [sched EXCEPT !.i = @ + 1, !.errors = Append(@, prompt.id),
                                       !.ntfy = SchedulerNotify(sched.ntfy_topic, "error", post),
                                       !.prompts[sched.i] =
                                           IF next.raised THEN prompt
                                           ELSE SetNextRunAt(prompt, next)]
    /\ UNCHANGED <<store, clock, cycle, budget, repoVars, calcVars, jobVars>>

\* lines 1153-1171: a due prompt without gitRemoteUrl or projectName
CycleMisconfigured ==
    /\ sched.pc = "loop" /\ sched.i <= Len(sched.prompts)
    /\ LET prompt == sched.prompts[sched.i]
       IN  /\ prompt.enabled /\ IsPromptDue(prompt, sched.now)
           /\ prompt.gitRemoteUrl = "" \/ prompt.projectName = ""
           /\ \E post \in IF sched.ntfy_topic = "" THEN {"ok"} ELSE NtfyOutcomes :
                sched' = [sched EXCEPT !.i = @ + 1, !.errors = Append(@, prompt.id),
                                       !.ntfy = SchedulerNotify(sched.ntfy_topic, "error", post)]
    /\ UNCHANGED <<store, clock, cycle, budget, repoVars, calcVars, jobVars>>

\* how long an execution may take, in minutes
ExecMinutes == {0, 5}

\* the execute_prompt runs a cycle is checked with: the agent leaves the
\* work tree as it found it and the bookkeeping does not raise, so that a
\* cycle creates no commit
ScheduledInputs(r) == ExecuteInputs(r, NoSession, {{}}, {"none"})

\* a scheduler that resumes the session of the prompt's last execution
ScheduledSessionResumes(prompt) ==
    IF prompt.lastExecution # NoValue /\ prompt.lastExecution.sessionId # ""
    THEN prompt.lastExecution.sessionId
    ELSE NoSession

\* line 1181: the session_id the scheduler passes to execute_prompt (None)
ScheduledSession(prompt) == NoSession

\* lines 1173-1244: a due prompt is executed
CycleExecute ==
    /\ sched.pc = "loop" /\ sched.i <= Len(sched.prompts)
    /\ LET prompt == sched.prompts[sched.i]
           p == prompt.projectName
       IN  /\ prompt.enabled /\ IsPromptDue(prompt, sched.now)
           /\ prompt.gitRemoteUrl # "" /\ p # ""
           /\ \E remoteOk \in BOOLEAN, d \in ExecMinutes :
              \E in \in IF remoteOk THEN ScheduledInputs(repos[p])
                        ELSE {[uuid |-> "u1", cloneOk |-> TRUE, fetchOk |-> TRUE,
                               agent |-> "ok", edits |-> {}, gitFault |-> "none"]} :
              \E x \in {ExecutePrompt(repos[p], upstream[p], ScheduledSession(prompt), in.uuid,
                                      in.cloneOk, in.fetchOk, in.agent, in.edits,
                                      in.gitFault, Commit(commitCount + 1, in.uuid))} :
              \E epPost \in IF remoteOk THEN PostOutcomes(x.result, sched.ntfy_topic)
                            ELSE {"ok"} :
              \E en \in {IF remoteOk THEN ExecuteNotify(x.result, sched.ntfy_topic, epPost)
                         ELSE [result |-> x.result, ntfy |-> <<>>]} :
              \E a \in {AttemptPrompt(prompt, sched.now,
                                      IF remoteOk THEN Returned(en.result)
                                      ELSE Raised("RemoteError"),
                                      AddMinutes(sched.now, d), tzdata)} :
              \E schedPost \in IF a.aborted \/ sched.ntfy_topic = "" THEN {"ok"}
                               ELSE NtfyOutcomes :
              \E sn \in {AttemptNotify(a, Returned(en.result), sched.ntfy_topic, schedPost)} :
                /\ ~Redundant(in, x)
                /\ IF remoteOk
                   THEN /\ repos' = [repos EXCEPT ![p] = x.repo]
                        /\ upstream' = [upstream EXCEPT ![p] = x.upstream]
                        /\ last' = ExecuteRecord(p, repos[p], ScheduledSession(prompt), in,
                                                 [x EXCEPT !.result = en.result])
                   ELSE /\ UNCHANGED <<repos, upstream>>
                        /\ last' = [NoOp EXCEPT !.op = "remote-error", !.project = p,
                                                !.session_arg = ScheduledSession(prompt)]
                /\ IF a.aborted
                   THEN /\ sched' = IdleSched
                        /\ cycle' = [cycle EXCEPT !.outcome = "raised",
                                        !.calls = Append(sched.calls, prompt.id)]
                   ELSE /\ sched' = [sched EXCEPT
                               !.i = @ + 1,
                               !.prompts[sched.i] = a.prompt,
                               !.executed = IF a.executed THEN Append(@, prompt.id) ELSE @,
                               !.errors = IF a.error THEN Append(@, prompt.id) ELSE @,
                               !.calls = Append(@, prompt.id),
                               !.ntfy = en.ntfy \o sn]
                        /\ UNCHANGED cycle
    /\ UNCHANGED <<store, clock, commitCount, budget, calcVars, jobVars>>

\* a write-back that compares the store with what the cycle loaded and
\* leaves a set that was replaced in the meantime alone
CycleEndKeepsNewerSet ==
    /\ sched.pc = "loop" /\ sched.i > Len(sched.prompts)
    /\ store' = IF store.prompts = cycle.loaded
                THEN [store EXCEPT !.prompts = sched.prompts]
                ELSE store
    /\ cycle' = [cycle EXCEPT !.outcome = "summary", !.checked = Len(sched.prompts),
                              !.executed = sched.executed, !.errors = sched.errors,
                              !.saved = TRUE, !.calls = sched.calls,
                              !.written = sched.prompts]
    /\ sched' = IdleSched
    /\ UNCHANGED <<clock, budget, repoVars, calcVars, jobVars>>

\* lines 1246-1270: the write-back and the summary
CycleEnd ==
    /\ sched.pc = "loop" /\ sched.i > Len(sched.prompts)
    /\ store' = [store EXCEPT !.prompts = sched.prompts]
    /\ cycle' = [cycle EXCEPT !.outcome = "summary", !.checked = Len(sched.prompts),
                              !.executed = sched.executed, !.errors = sched.errors,
                              !.saved = TRUE, !.calls = sched.calls,
                              !.written = sched.prompts]
    /\ sched' = IdleSched
    /\ UNCHANGED <<clock, budget, repoVars, calcVars, jobVars>>

\* the cron period, and a day, in minutes
TickMinutes == {30, 1440}

\* time passes until a later trigger of the cron
Tick ==
    /\ sched.pc = "idle"
    /\ budget.ticks > 0
    /\ \E d \in TickMinutes : clock' = AddMinutes(clock, d)
    /\ budget' = [budget EXCEPT !.ticks = @ - 1]
    /\ UNCHANGED <<store, sched, cycle, repoVars, calcVars, jobVars>>

\* the ISO string the authoring surface stores for an instant; it writes
\* the UTC designator as "Z"
IsoZ(dt) == <<dt.year, dt.month, dt.day, dt.hour, dt.minute, dt.second, "Z">>

\* the prompts the authoring surface may have stored, each with the
\* nextRunAt it computed: the next occurrence on or after 2024-01-31
PoolPrompt(id) ==
    CASE id = "a" -> Prompt("a", TRUE, "Asia/Tokyo", <<5, 0>>, "daily", Missing, Missing,
                            IsoZ(DateTime(2024, 1, 31, 20, 0, 0)), "url", "p1")
      [] id = "b" -> Prompt("b", TRUE, "UTC", <<9, 0>>, "monthly", Missing, 31,
                            IsoZ(DateTime(2024, 1, 31, 9, 0, 0)), "url", "p1")
      [] id = "c" -> Prompt("c", TRUE, "America/Los_Angeles", <<8, 45>>, "weekly", 3,
                            Missing, IsoZ(DateTime(2024, 1, 31, 16, 45, 0)), "url", "p1")
      [] id = "d" -> Prompt("d", FALSE, "UTC", <<9, 0>>, "daily", Missing, Missing,
                            IsoZ(DateTime(2024, 1, 31, 9, 0, 0)), "url", "p1")
      [] id = "e" -> Prompt("e", TRUE, "UTC", <<9, 0>>, "daily", Missing, Missing,
                            IsoZ(DateTime(2024, 1, 31, 9, 0, 0)), "url", "")
      [] id = "f" -> Prompt("f", TRUE, "UTC", <<9, 0>>, "daily", Missing, Missing,
                            NoValue, "url", "p1")
      [] id = "g" -> Prompt("g", TRUE, "UTC", <<9, 0>>, "daily", Missing, Missing,
                            IsoZ(DateTime(2024, 1, 31, 9, 0, 0)), "url", "p1")

PromptList(ids) == [i \in DOMAIN ids |-> PoolPrompt(ids[i])]

\* the prompt lists the Dict may hold at the start
PromptLists ==
    { PromptList(ids) :
        ids \in {<<"a">>, <<"g", "b">>, <<"b", "g">>, <<"d", "c">>, <<"e", "a">>,
                 <<"f", "g">>, <<"c", "e">>} }

\* the prompt lists a sync may bring
SyncRequests == { PromptList(ids) : ids \in {<<>>, <<"g">>, <<"a", "g">>} }

\* the instants the model starts at: a few seconds after a trigger of the cron
StartClocks ==
    { DateTime(2024, 1, 31, 9, 0, 5), DateTime(2024, 1, 31, 16, 30, 5),
      DateTime(2024, 1, 31, 20, 30, 5) }

\* clock ticks in one behaviour
MaxTicks == 1

\* syncs in one behaviour
MaxSyncs == 1

\* api_sync_scheduled_prompts: the authoring surface replaces prompts and
\* settings; the settings it sends are the ones it holds, which a behaviour
\* does not change
Sync ==
    /\ budget.syncs > 0
    /\ \E req \in SyncRequests, settings \in {store.settings} :
        store' = [prompts |-> req, settings |-> settings]
    /\ budget' = [budget EXCEPT !.syncs = @ - 1]
    /\ UNCHANGED <<clock, sched, cycle, repoVars, calcVars, jobVars>>

\* the state a scheduler starts in, with the prompt lists and the ntfy topic
\* the authoring surface may have stored, at one of the instants clocks
SchedInitWith(lists, topics, clocks) ==
    /\ store \in { [prompts |-> l, settings |-> [ntfyTopic |-> t]] :
                     l \in lists, t \in topics }
    /\ clock \in clocks
    /\ sched = IdleSched
    /\ cycle = NoCycle
    /\ budget = [ticks |-> MaxTicks, syncs |-> MaxSyncs]
    /\ tzdata = TRUE
    /\ repos = [p \in Projects |-> AbsentRepo]
    /\ upstream = [p \in Projects |-> {BaseCommit}]
    /\ commitCount = 0
    /\ last = NoOp
    /\ jobs = NoJobs
    /\ calcPc = "off"
    /\ calcPrompt = NoValue
    /\ calcNow = NoValue
    /\ calcResult = Raised("none")
    /\ calcDue = FALSE

\* notifications are not configured
SchedInit == SchedInitWith(PromptLists, {""}, StartClocks)

SchedNext ==
    \/ CycleStart
    \/ CycleSkip
    \/ CycleMisconfigured
    \/ CycleExecute
    \/ CycleEnd
    \/ Tick
    \/ Sync

SpecSched == SchedInit /\ [][SchedNext]_vars

\* the scheduler with an ntfy topic in the settings
NotifyLists ==
    { PromptList(ids) : ids \in {<<"a", "g">>, <<"e", "a">>, <<"d", "c">>, <<"g", "b">>} }

NotifyInit ==
    SchedInitWith(NotifyLists, {"topic"}, {DateTime(2024, 1, 31, 20, 30, 5)})

\* the cycles at one instant, and the syncs between them
NotifyNext ==
    \/ CycleStart
    \/ CycleSkip
    \/ CycleMisconfigured
    \/ CycleExecute
    \/ CycleEnd
    \/ Sync

SpecNotify == NotifyInit /\ [][NotifyNext]_vars

-----------------------------------------------------------------------------
(* The time limits.  Modal stops a function that has run for its timeout;  *)
(* check_scheduled_prompts waits at line 1177 for each execution it starts. *)

\* line 550: timeout of the agent's subprocess, in seconds
AgentTimeout == 540

\* line 357: timeout of execute_prompt
ExecutePromptTimeout == 600

\* line 1081: timeout of check_scheduled_prompts
CheckScheduledPromptsTimeout == 600

\* the scheduler is stopped at its timeout while it waits for an execution:
\* an execution may run for as long as execute_prompt's timeout allows (an
\* agent stopped after AgentTimeout, after the clone and before the return),
\* and the cycle that waits for it started before it did.  Nothing after
\* line 1177 runs: no lastExecution, no nextRunAt, no write-back, no summary
CycleKilled ==
    /\ sched.pc = "loop" /\ sched.i <= Len(sched.prompts)
    /\ ExecutePromptTimeout >= CheckScheduledPromptsTimeout
    /\ LET prompt == sched.prompts[sched.i]
           p == prompt.projectName
       IN  /\ prompt.enabled /\ IsPromptDue(prompt, sched.now)
           /\ prompt.gitRemoteUrl # "" /\ p # ""
           /\ \E in \in { i \in ScheduledInputs(repos[p]) : i.agent = "timeout" } :
              \E x \in {ExecutePrompt(repos[p], upstream[p], ScheduledSession(prompt),
                                      in.uuid, in.cloneOk, in.fetchOk, in.agent, in.edits,
                                      in.gitFault, Commit(commitCount + 1, in.uuid))} :
                /\ repos' = [repos EXCEPT ![p] = x.repo]
                /\ upstream' = [upstream EXCEPT ![p] = x.upstream]
                /\ last' = ExecuteRecord(p, repos[p], ScheduledSession(prompt), in, x)
           /\ cycle' = [cycle EXCEPT !.outcome = "killed",
                                     !.calls = Append(sched.calls, prompt.id)]
    /\ sched' = IdleSched
    /\ UNCHANGED <<store, clock, commitCount, budget, calcVars, jobVars>>

TimeoutNext == SchedNext \/ CycleKilled

SpecTimeout == SchedInit /\ [][TimeoutNext]_vars

-----------------------------------------------------------------------------
(* The publish gate and on-demand executions on their own.                 *)

\* the scheduler's variables where the scheduler takes no part
SchedOff ==
    /\ store = [prompts |-> <<>>, settings |-> [ntfyTopic |-> ""]]
    /\ clock = NoValue
    /\ sched = IdleSched
    /\ cycle = NoCycle
    /\ budget = [ticks |-> 0, syncs |-> 0]

RepoInit ==
    /\ repos \in [Projects -> {AbsentRepo, InvalidRepo}]
    /\ upstream = [p \in Projects |-> {BaseCommit}]
    /\ commitCount = 0
    /\ last = NoOp
    /\ jobs = NoJobs
    /\ calcPc = "off"
    /\ calcPrompt = NoValue
    /\ calcNow = NoValue
    /\ tzdata = TRUE
    /\ calcResult = Raised("none")
    /\ calcDue = FALSE
    /\ SchedOff

RepoNext ==
    \E p \in Projects : Execute(p) \/ CheckChanges(p) \/ Push(p) \/ UpstreamAdvance(p)

SpecRepo == RepoInit /\ [][RepoNext]_vars

-----------------------------------------------------------------------------
(* The publish gate with the scheduler beside it: the on-demand operations *)
(* and the steps of a cycle over one stored prompt list, in any order.     *)

GateInit ==
    /\ repos = [p \in Projects |-> AbsentRepo]
    /\ upstream = [p \in Projects |-> {BaseCommit}]
    /\ commitCount = 0
    /\ last = NoOp
    /\ jobs = NoJobs
    /\ store = [prompts |-> PromptList(<<"e", "g">>),
                settings |-> [ntfyTopic |-> ""]]
    /\ clock = DateTime(2024, 1, 31, 9, 0, 5)
    /\ sched = IdleSched
    /\ cycle = NoCycle
    /\ budget = [ticks |-> 0, syncs |-> 0]
    /\ tzdata = TRUE
    /\ calcPc = "off"
    /\ calcPrompt = NoValue
    /\ calcNow = NoValue
    /\ calcResult = Raised("none")
    /\ calcDue = FALSE

\* the on-demand executions beside a cycle: fresh or continuing the session
\* of an earlier run, the agent edits tracked files or nothing, no git fault
GateExecute(p) == ExecuteWith(p, {NoSession} \cup Uuids, {{}, {"m"}}, {"none"})

GateNext ==
    \/ \E p \in Projects :
          GateExecute(p) \/ CheckChanges(p) \/ Push(p) \/ UpstreamAdvance(p)
    \/ CycleStart
    \/ CycleSkip
    \/ CycleMisconfigured
    \/ CycleExecute
    \/ CycleEnd

SpecGate == GateInit /\ [][GateNext]_vars

-----------------------------------------------------------------------------
(* Executions as function calls.  api_dispatch_job spawns execute_prompt   *)
(* and returns; the scheduler calls it and waits.  Each call runs in a     *)
(* container of its own, and the function has no limit on the containers   *)
(* that run at once, so the steps of two calls interleave: a call prepares *)
(* the working directory (lines 429-525), runs the agent (527-566), and    *)
(* does the bookkeeping (569-707).  The phases of a call are "queued",     *)
(* "agent" (prepared, the agent is to run or running), "bookkeeping",      *)
(* "done" (it returned its result) and "killed" (the function's timeout    *)
(* ended it: the caller gets an exception).                                *)

\* session ids a dispatch request may carry
JobSessionArgs == {NoSession} \cup Uuids

\* what the agent of a spawned call may leave in the work tree
JobEdits == {{}, {"m"}}

\* the call gets the lowest id not yet given out
NextJobId(j) ==
    /\ jobs[j].phase = "none"
    /\ \A k \in JobIds : k < j => jobs[k].phase # "none"

\* lines 1891-1900: execute_prompt.spawn(...), and the response of
\* api_dispatch_job (1902-1907)
ApiDispatchJob(p) ==
    /\ \E j \in JobIds, session_arg \in JobSessionArgs :
          /\ NextJobId(j)
          /\ jobs' = [jobs EXCEPT ![j] = [NoJob EXCEPT !.phase = "queued", !.project = p,
                                                      !.session_arg = session_arg]]
          /\ last' = [NoOp EXCEPT !.op = "dispatch", !.project = p,
                                  !.result = [jobId |-> j, status |-> "queued"]]
    /\ UNCHANGED <<repos, upstream, commitCount, calcVars, schedVars>>

\* lines 1177-1185: execute_prompt.remote(...) of a scheduler cycle for a due
\* prompt of project p, up to the point where the call is made
ScheduledCall(p) ==
    /\ \E j \in JobIds :
          /\ NextJobId(j)
          /\ jobs' = [jobs EXCEPT ![j] = [NoJob EXCEPT !.phase = "queued", !.project = p,
                                                      !.session_arg = NoSession]]
          /\ last' = [NoOp EXCEPT !.op = "remote", !.project = p]
    /\ UNCHANGED <<repos, upstream, commitCount, calcVars, schedVars>>

\* lines 429-525 of call j: the session id, and the working directory made
\* ready (or the clone failure, which ends the call with a failure result)
JobPrepare(j) ==
    /\ jobs[j].phase = "queued"
    /\ LET p == jobs[j].project
           session_arg == jobs[j].session_arg
       IN  \E uuid \in Uuids, cloneOk \in BOOLEAN, fetchOk \in BOOLEAN :
           LET session_id == IF session_arg \in {NoSession, ""} THEN uuid ELSE session_arg
               es == EnsureSession(repos[p], upstream[p], session_arg # NoSession,
                                   cloneOk, fetchOk)
           IN  /\ repos' = [repos EXCEPT ![p] = es.repo]
               /\ jobs' = [jobs EXCEPT ![j] =
                     [@ EXCEPT !.session_id = session_id,
                               !.phase = IF es.raised THEN "done" ELSE "agent",
                               !.result = IF es.raised
                                          THEN FailureResult(session_id, "Command failed")
                                          ELSE jobs[j].result]]
               /\ last' = [NoOp EXCEPT !.op = "prepare", !.project = p]
    /\ UNCHANGED <<upstream, commitCount, calcVars, schedVars>>

\* lines 527-566 of call j: the agent runs in the working directory as it is
\* now; without a directory subprocess.run raises
JobAgent(j) ==
    /\ jobs[j].phase = "agent"
    /\ LET p == jobs[j].project
       IN  \E agent \in (IF WorkDirExists(repos[p]) THEN AgentOutcomes ELSE {"error"}),
              edits \in JobEdits :
              /\ repos' = [repos EXCEPT ![p] =
                    IF WorkDirExists(@) THEN [@ EXCEPT !.changes = @ \cup edits] ELSE @]
              /\ jobs' = [jobs EXCEPT ![j] =
                    IF agent \in {"timeout", "error"}
                    THEN [@ EXCEPT !.phase = "done",
                                   !.result = FailureResult(jobs[j].session_id,
                                                  IF agent = "timeout" THEN "timed out"
                                                  ELSE "Unexpected error")]
                    ELSE [@ EXCEPT !.phase = "bookkeeping", !.success = (agent = "ok")]]
              /\ last' = [NoOp EXCEPT !.op = "agent", !.project = p]
    /\ UNCHANGED <<upstream, commitCount, calcVars, schedVars>>

\* lines 569-707 of call j: the bookkeeping on the working directory as it is
\* now, and the result
JobBookkeeping(j) ==
    /\ jobs[j].phase = "bookkeeping"
    /\ LET p == jobs[j].project
       IN  \E bk \in {Bookkeeping(repos[p], upstream[p], jobs[j].success, "none",
                                  Commit(commitCount + 1, jobs[j].session_id))} :
              /\ bk.repo.head # repos[p].head => commitCount < MaxCommits
              /\ repos' = [repos EXCEPT ![p] = bk.repo]
              /\ commitCount' = IF bk.repo.head # repos[p].head THEN commitCount + 1
                                 ELSE commitCount
              /\ jobs' = [jobs EXCEPT ![j] =
                    [@ EXCEPT !.phase = "done",
                              !.result = ExecutionResult(jobs[j].session_id,
                                                         jobs[j].success, bk.pending)]]
              /\ last' = [NoOp EXCEPT !.op = "bookkeeping", !.project = p]
    /\ UNCHANGED <<upstream, calcVars, schedVars>>

\* line 357: the function's timeout of 600 s ends call j (git clone and git
\* fetch run without a timeout of their own); its caller gets an exception
JobKill(j) ==
    /\ jobs[j].phase \in {"agent", "bookkeeping"}
    /\ jobs' = [jobs EXCEPT ![j].phase = "killed", ![j].success = FALSE]
    /\ last' = [NoOp EXCEPT !.op = "kill", !.project = jobs[j].project]
    /\ UNCHANGED <<repos, upstream, commitCount, calcVars, schedVars>>

\* the ids a status request may name: those of the calls and one that
\* FunctionCall.from_id cannot resolve
StatusIds == JobIds \cup {0}

\* a status check that tells a call that has not started from one that has
GetJobStatusTellsQueued(js, job_id, asTimeout) ==
    IF job_id \notin JobIds \/ js[job_id].phase = "none"
    THEN [jobId |-> job_id, status |-> "unknown", error |-> "not found"]
    ELSE IF js[job_id].phase = "killed" /\ ~asTimeout
    THEN [jobId |-> job_id, status |-> "unknown", error |-> "FunctionTimeoutError"]
    ELSE IF js[job_id].phase = "done"
    THEN [jobId |-> job_id, status |-> "completed", result |-> js[job_id].result]
    ELSE IF js[job_id].phase = "queued"
    THEN [jobId |-> job_id, status |-> "queued"]
    ELSE [jobId |-> job_id, status |-> "running"]

\* lines 1913-1943: the response of api_get_job_status.  fc.get(timeout=0.1)
\* returns the result of a call that returned, raises TimeoutError for one
\* that has not ended, and raises something else for an id that names no
\* call.  For a call that the function's timeout ended it raises the
\* library's FunctionTimeoutError; asTimeout tells whether `except
\* TimeoutError` (1928) catches that class, which depends on the library
GetJobStatus(js, job_id, asTimeout) ==
    IF job_id \notin JobIds \/ js[job_id].phase = "none"
    THEN [jobId |-> job_id, status |-> "unknown", error |-> "not found"]
    ELSE IF js[job_id].phase = "killed" /\ ~asTimeout
    THEN [jobId |-> job_id, status |-> "unknown", error |-> "FunctionTimeoutError"]
    ELSE IF js[job_id].phase = "done"
    THEN [jobId |-> job_id, status |-> "completed", result |-> js[job_id].result]
    ELSE [jobId |-> job_id, status |-> "running"]

\* api_get_job_status(job_id)
ApiGetJobStatus(job_id) ==
    /\ \E asTimeout \in BOOLEAN :
          last' = [NoOp EXCEPT !.op = "status",
                                !.result = GetJobStatus(jobs, job_id, asTimeout)]
    /\ UNCHANGED <<repos, upstream, commitCount, jobs, calcVars, schedVars>>

\* no call has been made and no project has a working directory yet
JobsInit ==
    /\ RepoInit
    /\ \A p \in Projects : repos[p] = AbsentRepo

JobsNext ==
    \/ \E p \in Projects : ApiDispatchJob(p) \/ ScheduledCall(p)
    \/ \E j \in JobIds : JobPrepare(j) \/ JobAgent(j) \/ JobBookkeeping(j) \/ JobKill(j)
    \/ \E job_id \in StatusIds : ApiGetJobStatus(job_id)

SpecJobs == JobsInit /\ [][JobsNext]_vars

-----------------------------------------------------------------------------
(* The recurrence engine on its own: a prompt and an instant are drawn,    *)
(* calculate_next_run_at is evaluated at that instant, and is_prompt_due   *)
(* is evaluated at the instant it returned.                                *)

CalcHours == {0, 5, 8, 16, 23}

CalcMinutes == {0, 45}

CalcDaysOfWeek == 0..6

CalcDaysOfMonth == {1, 15, 29, 30, 31}

ScheduleTypes == {"daily", "weekly", "monthly", "yearly"}

CalcPrompts ==
    { Prompt("a", TRUE, tz, <<h, m>>, kind, dow, dom, NoValue, "url", "p1") :
        tz \in Timezones, h \in CalcHours, m \in CalcMinutes,
        kind \in ScheduleTypes, dow \in {Missing}, dom \in {Missing} }
    \cup
    { Prompt("a", TRUE, tz, <<h, m>>, "weekly", dow, Missing, NoValue, "url", "p1") :
        tz \in Timezones, h \in CalcHours, m \in CalcMinutes, dow \in CalcDaysOfWeek }
    \cup
    { Prompt("a", TRUE, tz, <<h, m>>, "monthly", Missing, dom, NoValue, "url", "p1") :
        tz \in Timezones, h \in CalcHours, m \in CalcMinutes, dom \in CalcDaysOfMonth }

CalcDates ==
    {<<2023, 12, 31>>, <<2024, 1, 1>>, <<2024, 1, 15>>, <<2024, 1, 31>>,
     <<2024, 2, 29>>, <<2024, 4, 30>>, <<2024, 6, 16>>}

CalcNows ==
    { DateTime(d[1], d[2], d[3], h, m, s) :
        d \in CalcDates, h \in {0, 5, 12, 21}, m \in CalcMinutes, s \in {0, 30} }

CalcInit ==
    /\ calcPc = "start"
    /\ calcPrompt \in CalcPrompts
    /\ calcNow \in CalcNows
    /\ tzdata \in BOOLEAN
    /\ calcResult = Raised("none")
    /\ calcDue = FALSE
    /\ repos = [p \in Projects |-> AbsentRepo]
    /\ upstream = [p \in Projects |-> {BaseCommit}]
    /\ commitCount = 0
    /\ last = NoOp
    /\ jobs = NoJobs
    /\ SchedOff

\* nextRunAt := calculate_next_run_at(prompt)
CalcNextRun ==
    /\ calcPc = "start"
    /\ calcResult' = CalculateNextRunAt(calcPrompt, calcNow, tzdata)
    /\ calcPrompt' = IF calcResult'.raised THEN calcPrompt
                     ELSE [calcPrompt EXCEPT !.nextRunAt = calcResult'.value]
    /\ calcPc' = "calculated"
    /\ UNCHANGED <<calcNow, tzdata, calcDue, repoVars, schedVars, jobVars>>

\* is_prompt_due(prompt, t) at the instant t that was returned
CalcCheckDue ==
    /\ calcPc = "calculated"
    /\ ~calcResult.raised
    /\ calcDue' = IsPromptDue(calcPrompt, FromIsoFormat(calcResult.value).value.dt)
    /\ calcPc' = "checked"
    /\ UNCHANGED <<calcPrompt, calcNow, tzdata, calcResult, repoVars, schedVars, jobVars>>

CalcNext == CalcNextRun \/ CalcCheckDue

SpecCalc == CalcInit /\ [][CalcNext]_vars

-----------------------------------------------------------------------------
(* is_prompt_due on its own: a stored prompt and an instant are drawn and  *)
(* the function is evaluated on them.                                      *)

\* the instants a stored nextRunAt may name
DueInstants ==
    {DateTime(2023, 12, 31, 21, 45, 30), DateTime(2024, 1, 1, 0, 0, 0),
     DateTime(2024, 1, 31, 5, 45, 0), DateTime(2024, 2, 29, 12, 0, 30),
     DateTime(2024, 6, 16, 21, 0, 0)}

\* the values of the key nextRunAt: absent, an instant as the authoring
\* surface writes it ("...Z") or as calculate_next_run_at writes it
\* ("...+00:00"), a datetime without offset, and text that is no date
DueNextRunAts ==
    {NoValue}
    \cup { IsoZ(d) : d \in DueInstants }
    \cup { IsoFormat(d) : d \in DueInstants }
    \cup {<<2024, 1, 31, 5, 45, 0>>, <<2024, 2, 30, 9, 0, 0, "Z">>, <<2024, 13, 1, 0, 0, 0, "Z">>}

DuePrompts ==
    { Prompt("a", enabled, "UTC", <<9, 0>>, "daily", Missing, Missing, nextRunAt, "url", "p1") :
        enabled \in BOOLEAN, nextRunAt \in DueNextRunAts }

DueInit ==
    /\ calcPc = "due"
    /\ calcPrompt \in DuePrompts
    /\ calcNow \in CalcNows
    /\ tzdata = TRUE
    /\ calcResult = Raised("none")
    /\ calcDue = FALSE
    /\ repos = [p \in Projects |-> AbsentRepo]
    /\ upstream = [p \in Projects |-> {BaseCommit}]
    /\ commitCount = 0
    /\ last = NoOp
    /\ jobs = NoJobs
    /\ SchedOff

\* is_prompt_due(prompt, now)
DueCheck ==
    /\ calcPc = "due"
    /\ calcDue' = IsPromptDue(calcPrompt, calcNow)
    /\ calcPc' = "checked"
    /\ UNCHANGED <<calcPrompt, calcNow, tzdata, calcResult, repoVars, schedVars, jobVars>>

DueNext == DueCheck

SpecDue == DueInit /\ [][DueNext]_vars

-----------------------------------------------------------------------------
(* The claims about the scheduler cycle.                                   *)

\* the ids a cycle handed to execute_prompt
Called == { cycle.calls[i] : i \in DOMAIN cycle.calls }

\* C1: after a cycle run at instant now, the nextRunAt written back for every
\* prompt the cycle attempted to execute is strictly later than now
C1_NextRunAtLaterThanNow ==
    cycle.outcome = "summary" =>
        \A i \in DOMAIN cycle.written :
            cycle.written[i].id \in Called =>
                LET parsed == FromIsoFormat(ReplaceZ(cycle.written[i].nextRunAt))
                IN  /\ ~parsed.raised
                    /\ Stamp(parsed.value.dt) > Stamp(cycle.now)

\* C2: a cycle that loaded a prompt set is never aborted by one prompt: when
\* it is over every prompt was checked, the set was written back and the
\* summary was returned
C2_CycleNeverAborted ==
    (sched.pc = "idle" /\ cycle.outcome \notin {"none", "empty"}) =>
        /\ cycle.outcome = "summary"
        /\ cycle.saved
        /\ cycle.checked = Len(cycle.loaded)

-----------------------------------------------------------------------------
(* The claims about the recurrence engine.                                 *)

\* C3: for daily recurrence calculate_next_run_at evaluated at now returns an
\* instant t with now <= t <= now + 24h, and is_prompt_due at t of the
\* prompt whose nextRunAt is t is true
C3_DailyWithinOneDay ==
    (calcPc # "start" /\ calcPrompt.scheduleType = "daily") =>
        /\ ~calcResult.raised
        /\ LET t == FromIsoFormat(calcResult.value).value.dt
           IN  /\ Stamp(calcNow) <= Stamp(t)
               /\ Stamp(t) <= Stamp(calcNow) + 86400
        /\ (calcPc = "checked" => calcDue)

\* C4: for monthly recurrence with a dayOfMonth that some month does not
\* have, calculate_next_run_at does not raise
C4_MonthlyNeverRaises ==
    (calcPc # "start" /\ calcPrompt.scheduleType = "monthly"
                      /\ calcPrompt.dayOfMonth > 28) =>
        ~calcResult.raised

-----------------------------------------------------------------------------
(* The claims about the working directory and the publish gate.            *)

C6_CorruptedCheckoutRecloned ==
    (last.op = "execute" /\ last.before.dir = "invalid") =>
        /\ {"rm", "clone"} \subseteq last.ops
        /\ IF last.agent = "none"
           THEN /\ repos[last.project] = AbsentRepo
                /\ ~last.result.success
           ELSE /\ last.agentSaw.dir = "valid" /\ ~last.agentSaw.junk
                /\ last.agentSaw.head = upstream[last.project]
                /\ last.agentSaw.changes = {}
                /\ repos[last.project].dir = "valid"
                /\ ~repos[last.project].junk

\* the agent ran after a corrupted directory was replaced by a clone
C6_AgentRanInFreshClone ==
    /\ last.op = "execute" /\ last.before.dir = "invalid" /\ last.before.junk
    /\ last.agent = "ok"
    /\ repos[last.project].dir = "valid"

\* C7: an execution called with a session id on a valid checkout runs no
\* stash, fetch or reset (and no removal or clone): the agent starts in the
\* working directory exactly as the call found it
C7_ContinuationKeepsLocalState ==
    (last.op = "execute" /\ last.session_arg # NoSession
                         /\ last.before.dir = "valid") =>
        /\ last.ops \cap {"stash", "fetch", "reset", "rm", "clone"} = {}
        /\ last.agent # "none"
        /\ last.agentSaw = last.before

\* a second execution was passed the id of the one that created a local
\* commit, and its agent found that commit and uncommitted changes
C7_SecondRunSeesFirstRunsWork ==
    /\ last.op = "execute" /\ last.session_arg \in Uuids
    /\ last.before.dir = "valid"
    /\ last.before.changes # {}
    /\ \E c \in last.before.head \ last.before.origin :
          c.by = last.session_arg /\ c \in last.agentSaw.head
    /\ last.agentSaw.changes = last.before.changes

-----------------------------------------------------------------------------
(* The claims about the result and the session of an execution.            *)

C12_ContinuationIffSessionSupplied ==
    last.op = "execute" =>
        LET supplied == last.session_arg \notin {NoSession, ""}
            minted == last.session_id # last.session_arg
        IN  /\ last.is_continuation <=> supplied
            /\ supplied => last.result.sessionId = last.session_arg
            /\ ~supplied => minted /\ last.result.sessionId \in Uuids
            /\ minted => /\ ~last.is_continuation
                         /\ ~last.continueFlag
                         /\ (last.before.dir = "repo" => "fetch" \in last.ops)

\* C13: an execution that finds no working directory runs git clone and no
\* other command on the directory before the agent; after a failed clone the
\* agent is not started, the result is a failure with an error text, nothing
\* is left behind and nothing else is touched; after a successful one the
\* agent starts in a checkout of the upstream branch
C13_AbsentDirectoryIsCloned ==
    (last.op = "execute" /\ last.before.dir = "absent") =>
        /\ last.ops \cap {"clone", "rm", "set-url", "stash", "fetch", "reset"} = {"clone"}
        /\ IF last.agent = "none"
           THEN /\ last.agentSaw = NoRun
                /\ ~last.result.success
                /\ last.result.error = "Command failed"
                /\ last.ops = {"clone"}
                /\ repos[last.project] = AbsentRepo
           ELSE /\ last.agentSaw.dir = "valid"
                /\ last.agentSaw.head = upstream[last.project]
                /\ last.agentSaw.changes = {}

\* the clone failed in an execution that found no working directory
C13_CloneFailedOnAbsentDirectory ==
    /\ last.op = "execute" /\ last.before.dir = "absent"
    /\ last.agent = "none" /\ last.ops = {"clone"}
    /\ ~last.result.success /\ last.result.error # ""
    /\ repos[last.project] = AbsentRepo

-----------------------------------------------------------------------------
(* The claims about the publish gate.                                      *)

\* C14: push_repo_changes on a checkout whose branch has no commit that
\* upstream lacks returns success with an empty pushedCommits, runs no git
\* push, and changes neither the working copy nor upstream
C14_NothingToPushIsNoOp ==
    [][\A p \in Projects :
        (/\ last'.op = "push" /\ last'.project = p
         /\ repos[p].dir = "valid"
         /\ repos[p].head \subseteq upstream[p]) =>
            /\ last'.result.success
            /\ last'.result.pushedCommits = {}
            /\ ~last'.pushed
            /\ repos'[p] = repos[p]
            /\ upstream'[p] = upstream[p]]_vars

-----------------------------------------------------------------------------
(* The claims about is_prompt_due.                                         *)

\* whether the aware instant a is at or before b, field by field
NotAfter(a, b) ==
    LET fa == <<a.year, a.month, a.day, a.hour, a.minute, a.second>>
        fb == <<b.year, b.month, b.day, b.hour, b.minute, b.second>>
    IN  \/ fa = fb
        \/ \E i \in 1..6 : /\ fa[i] < fb[i]
                           /\ \A j \in 1..(i - 1) : fa[j] = fb[j]

\* C15: is_prompt_due(prompt, now) is true exactly when the prompt is
\* enabled, nextRunAt is set and names an instant at or before now; so it is
\* false for a disabled prompt whatever its nextRunAt and false without a
\* nextRunAt
C15_DueIffEnabledAndReached ==
    calcPc = "checked" =>
        LET set == calcPrompt.nextRunAt # NoValue
            parsed == FromIsoFormat(ReplaceZ(calcPrompt.nextRunAt))
            instant == set /\ ~parsed.raised /\ parsed.value.aware
        IN  /\ calcDue <=> /\ calcPrompt.enabled
                           /\ instant
                           /\ NotAfter(parsed.value.dt, calcNow)
            /\ ~calcPrompt.enabled => ~calcDue
            /\ ~set => ~calcDue

\* an enabled prompt evaluated at the very instant of its nextRunAt is due
C15_DueAtTheInstant ==
    /\ calcPc = "checked"
    /\ calcPrompt.enabled
    /\ calcPrompt.nextRunAt = IsoZ(calcNow)
    /\ calcDue

-----------------------------------------------------------------------------
(* The claims about what a scheduler cycle executes and records.           *)

\* the ids handed to execute_prompt so far in the cycle that is running, or
\* in the last one when none is
CallsOfCycle == IF sched.pc = "loop" THEN sched.calls ELSE cycle.calls

\* whether the stored prompt is enabled and its nextRunAt is an instant at or
\* before now
EnabledAndReached(prompt, now) ==
    /\ prompt.enabled
    /\ prompt.nextRunAt # NoValue
    /\ LET parsed == FromIsoFormat(ReplaceZ(prompt.nextRunAt))
       IN  /\ ~parsed.raised
           /\ parsed.value.aware
           /\ NotAfter(parsed.value.dt, now)

\* C16: a cycle hands to execute_prompt only prompts that were enabled and
\* due at the cycle's instant when the cycle loaded them, no prompt twice,
\* and every call is made without a session id: it is a fresh session, with
\* no continuation flag
C16_OnlyDuePromptsOnceFresh ==
    /\ \A k \in DOMAIN CallsOfCycle :
          /\ \E i \in DOMAIN cycle.loaded :
                /\ cycle.loaded[i].id = CallsOfCycle[k]
                /\ EnabledAndReached(cycle.loaded[i], cycle.now)
          /\ \A j \in DOMAIN CallsOfCycle : CallsOfCycle[j] = CallsOfCycle[k] => j = k
    /\ last.op \in {"execute", "remote-error"} =>
          /\ last.session_arg = NoSession
          /\ ~last.is_continuation
          /\ ~last.continueFlag
          /\ last.op = "execute" => last.session_id \in Uuids

\* a prompt runs for the second time, a day after its first run, again as a
\* fresh session
C16_SecondRunIsFresh ==
    /\ cycle.outcome = "summary"
    /\ Len(cycle.calls) = 1
    /\ \E i \in DOMAIN cycle.loaded :
          /\ cycle.loaded[i].id = cycle.calls[1]
          /\ cycle.loaded[i].lastExecution # NoValue
          /\ cycle.loaded[i].lastExecution.sessionId \in Uuids
    /\ last.op = "execute" /\ last.session_arg = NoSession

\* C17: when a cycle is over, every prompt it handed to execute_prompt has
\* been written back with a lastExecution of this cycle (its timestamp, a
\* status, and a session id or an error) and with the nextRunAt that
\* calculate_next_run_at returns for it, whether the call returned or raised
C17_AttemptedPromptsRecorded ==
    cycle.outcome \in {"summary", "raised"} =>
        \A k \in DOMAIN cycle.calls :
            \E i \in DOMAIN cycle.written :
                LET prompt == cycle.written[i]
                IN  /\ prompt.id = cycle.calls[k]
                    /\ prompt.lastExecution # NoValue
                    /\ prompt.lastExecution.timestamp = IsoFormat(cycle.now)
                    /\ prompt.lastExecution.status \in {"success", "failed"}
                    /\ prompt.lastExecution.sessionId # "" \/ prompt.lastExecution.error # ""
                    /\ \E d \in ExecMinutes :
                          LET next == CalculateNextRunAt(prompt, AddMinutes(cycle.now, d), tzdata)
                          IN  ~next.raised /\ prompt.nextRunAt = next.value

\* whether the stored prompt lacks gitRemoteUrl or projectName
Misconfigured(prompt) == prompt.gitRemoteUrl = "" \/ prompt.projectName = ""

\* C18: a due prompt without gitRemoteUrl or projectName is counted among
\* the errors of the cycle, is not handed to execute_prompt, and is written
\* back exactly as it was loaded (so the next cycle finds it due again); the
\* cycle goes on: at its summary every due prompt with both fields has been
\* handed to execute_prompt
C18_MisconfiguredPromptReported ==
    /\ \A i \in DOMAIN cycle.loaded :
          LET prompt == cycle.loaded[i]
              visited == IF sched.pc = "loop" THEN i < sched.i
                         ELSE cycle.outcome = "summary"
          IN  (/\ visited
               /\ EnabledAndReached(prompt, cycle.now)
               /\ Misconfigured(prompt)) =>
                 /\ \E k \in DOMAIN (IF sched.pc = "loop" THEN sched.errors ELSE cycle.errors) :
                       (IF sched.pc = "loop" THEN sched.errors ELSE cycle.errors)[k] = prompt.id
                 /\ \A k \in DOMAIN CallsOfCycle : CallsOfCycle[k] # prompt.id
                 /\ (IF sched.pc = "loop" THEN sched.prompts ELSE cycle.written)[i] = prompt
    /\ cycle.outcome = "summary" =>
          \A i \in DOMAIN cycle.loaded :
              (EnabledAndReached(cycle.loaded[i], cycle.now) /\ ~Misconfigured(cycle.loaded[i]))
                  => \E k \in DOMAIN cycle.calls : cycle.calls[k] = cycle.loaded[i].id

\* a later cycle reports the misconfigured prompt again and executes the
\* prompt after it, which an earlier cycle had executed too
C18_ReportedAgainNextDay ==
    /\ cycle.outcome = "summary"
    /\ Len(cycle.loaded) = 2
    /\ Misconfigured(cycle.loaded[1])
    /\ cycle.loaded[1].lastExecution = NoValue
    /\ cycle.errors = <<cycle.loaded[1].id>>
    /\ cycle.calls = <<cycle.loaded[2].id>>
    /\ cycle.loaded[2].lastExecution # NoValue
    /\ cycle.written[1] = cycle.loaded[1]

-----------------------------------------------------------------------------
(* The claims about executions as function calls.                          *)

\* C19: no two execute_prompt calls on the same project name, spawned by
\* dispatch or made by the scheduler, are at once between the start of
\* their preparation of the working directory and their end
C19_OneExecutionPerProject ==
    \A j \in JobIds, k \in JobIds :
        (/\ j # k
         /\ jobs[j].project = jobs[k].project
         /\ jobs[j].phase \in {"agent", "bookkeeping"}) =>
            jobs[k].phase \notin {"agent", "bookkeeping"}

\* whether call job_id has returned a result
ResultAvailable(job_id) == job_id \in JobIds /\ jobs[job_id].phase = "done"

\* C20 as stated: a status check answers queued, running or completed for
\* any job id, completed exactly when the result of the call is available
\* (and then with that result), and a dispatch answers with a job id and
\* queued while the call has not started
C20_StatusQueuedRunningCompleted ==
    /\ last.op = "status" =>
          /\ last.result.status \in {"queued", "running", "completed"}
          /\ last.result.status = "completed" <=> ResultAvailable(last.result.jobId)
          /\ last.result.status = "completed" =>
                last.result.result = jobs[last.result.jobId].result
    /\ last.op = "dispatch" =>
          /\ last.result.status = "queued"
          /\ jobs[last.result.jobId].phase = "queued"

\* C20, amended: a status check answers completed, with the result, exactly
\* when the call has returned its result; running when the call was made
\* and has not ended, started or not; unknown, with an error text, for an
\* id that names no call; and unknown or running for a call that the
\* function's timeout ended.  It never answers queued: that is the answer
\* of a dispatch, given with the job id while the call has not started
C20_StatusRunningCompletedUnknown ==
    /\ last.op = "status" =>
          LET job_id == last.result.jobId
              made == job_id \in JobIds /\ jobs[job_id].phase # "none"
          IN  /\ last.result.status \in {"running", "completed", "unknown"}
              /\ last.result.status = "completed" <=> ResultAvailable(job_id)
              /\ last.result.status = "completed" =>
                    last.result.result = jobs[job_id].result
              /\ (made /\ jobs[job_id].phase \in {"queued", "agent", "bookkeeping"})
                    => last.result.status = "running"
              /\ ~made => last.result.status = "unknown"
              /\ (made /\ jobs[job_id].phase = "killed")
                    => last.result.status \in {"unknown", "running"}
              /\ last.result.status = "unknown" => last.result.error # ""
    /\ last.op = "dispatch" =>
          /\ last.result.status = "queued"
          /\ last.result.jobId \in JobIds
          /\ jobs[last.result.jobId].phase = "queued"

\* a status check of a call that was spawned and has not started: running
C20_QueuedCallReportedRunning ==
    /\ last.op = "status"
    /\ last.result.jobId \in JobIds
    /\ jobs[last.result.jobId].phase = "queued"
    /\ last.result.status = "running"

-----------------------------------------------------------------------------
(* The claims about single recurrences.                                    *)

\* the instant an ISO string returned by calculate_next_run_at names
InstantOf(s) == FromIsoFormat(ReplaceZ(s)).value.dt

\* C21: a daily prompt with timeOfDay 08:45 in America/Los_Angeles evaluated
\* at 2024-01-15T00:00:00Z gets the nextRunAt 2024-01-15T16:45:00Z, an
\* instant given with its UTC offset
C21_LosAngelesMorning ==
    (/\ calcPc \in {"calculated", "checked"}
     /\ calcPrompt.scheduleType = "daily"
     /\ calcPrompt.timezone = "America/Los_Angeles"
     /\ calcPrompt.timeOfDay = <<8, 45>>
     /\ calcNow = DateTime(2024, 1, 15, 0, 0, 0)) =>
        /\ ~calcResult.raised
        /\ ~FromIsoFormat(ReplaceZ(calcResult.value)).raised
        /\ FromIsoFormat(ReplaceZ(calcResult.value)).value.aware
        /\ InstantOf(calcResult.value) = DateTime(2024, 1, 15, 16, 45, 0)
        /\ calcPrompt.nextRunAt = calcResult.value

\* the scenario was evaluated, with the time zone database at hand
C21_ScenarioEvaluated ==
    /\ calcPc = "calculated"
    /\ tzdata
    /\ calcPrompt.scheduleType = "daily"
    /\ calcPrompt.timezone = "America/Los_Angeles"
    /\ calcPrompt.timeOfDay = <<8, 45>>
    /\ calcNow = DateTime(2024, 1, 15, 0, 0, 0)
    /\ calcResult = Returned(IsoFormat(DateTime(2024, 1, 15, 16, 45, 0)))

\* the prompt's wall clock at calcNow, by the offset the code itself uses
CalcLocalNow ==
    AddMinutes(calcNow, GetTimezoneOffset(calcPrompt.timezone, calcNow, tzdata))

\* today's occurrence of the configured time of day on that wall clock
CalcLocalToday ==
    ReplaceTime(CalcLocalNow, calcPrompt.timeOfDay[1], calcPrompt.timeOfDay[2]).value

\* C22: a weekly prompt whose dayOfWeek (0 = Sunday .. 6 = Saturday) is the
\* current day and whose time of day has already passed at the evaluation
\* instant gets the instant exactly 7 days after today's occurrence
C22_SameDayPassedAdvancesSevenDays ==
    (/\ calcPc # "start"
     /\ calcPrompt.scheduleType = "weekly"
     /\ calcPrompt.dayOfWeek # Missing
     /\ calcPrompt.dayOfWeek = (Weekday(CalcLocalNow) + 1) % 7
     /\ Stamp(CalcLocalToday) <= Stamp(CalcLocalNow)) =>
        /\ ~calcResult.raised
        /\ Stamp(AddMinutes(InstantOf(calcResult.value),
                            GetTimezoneOffset(calcPrompt.timezone, calcNow, tzdata)))
             = Stamp(CalcLocalToday) + 7 * 86400

-----------------------------------------------------------------------------
(* The claims about fresh sessions and the bookkeeping.                    *)

\* C23: in an execution without a session id on a valid checkout whose fetch
\* succeeded, the agent sees the upstream branch and nothing else: no
\* uncommitted edit and no local commit of an earlier execution
C23_FreshSessionSeesUpstreamOnly ==
    (/\ last.op = "execute" /\ last.session_arg = NoSession
     /\ last.before.dir = "valid"
     /\ "reset" \in last.ops) =>
        /\ last.agent # "none"
        /\ last.agentSaw.head = upstream[last.project]
        /\ last.agentSaw.changes = {}

\* C24: a fresh execution on a valid checkout whose fetch fails goes on: no
\* reset, no removal of the directory, no clone; the agent runs on the local
\* commits that were there, and success is the agent's exit status alone
C24_FailedFetchKeepsLocalState ==
    (/\ last.op = "execute" /\ last.session_arg = NoSession
     /\ last.before.dir = "valid"
     /\ "reset" \notin last.ops) =>
        /\ {"stash", "fetch"} \subseteq last.ops
        /\ last.ops \cap {"reset", "rm", "clone"} = {}
        /\ last.agent # "none"
        /\ last.agentSaw.dir = "valid"
        /\ last.agentSaw.head = last.before.head
        /\ last.agentSaw.origin = last.before.origin
        /\ last.result.success = (last.agent = "ok")
        /\ repos[last.project].dir = "valid"
        /\ last.before.head \subseteq repos[last.project].head

\* the fetch failed on a checkout that held a local commit upstream lacks,
\* and the agent ran on that commit and exited with status 0
C24_AgentRanOnStaleCheckout ==
    /\ last.op = "execute" /\ last.session_arg = NoSession
    /\ last.before.dir = "valid"
    /\ "fetch" \in last.ops /\ "reset" \notin last.ops
    /\ last.before.head \ last.before.origin # {}
    /\ last.agent = "ok" /\ last.result.success
    /\ last.agentSaw.head = last.before.head

\* C25: after an agent run that exits with status 0 and leaves the work tree
\* clean, with no git command failing, hasPendingChanges says whether the
\* local branch has a commit that upstream lacks, and nothing is committed
C25_CleanRunReportsUnpushedCommits ==
    (/\ last.op = "execute" /\ last.agent = "ok" /\ last.gitFault = "none"
     /\ last.agentSaw.changes \cup last.edits = {}) =>
        /\ last.result.success
        /\ last.result.hasPendingChanges =
              (IF repos[last.project].head \ upstream[last.project] # {}
               THEN "true" ELSE "false")
        /\ last.ops \cap {"add", "commit", "push"} = {}
        /\ repos[last.project].head = last.agentSaw.head

\* C26: when a git command of the bookkeeping fails after the agent exited
\* with status 0, execute_prompt still returns success = true with a
\* hasPendingChanges of true or false and no error, and still requests the
\* commit of the repos volume
C26_BookkeepingFailureIsSwallowed ==
    (last.op = "execute" /\ last.agent = "ok" /\ last.gitFault # "none") =>
        /\ last.result.success
        /\ last.result.error = ""
        /\ last.result.hasPendingChanges \in {"true", "false"}
        /\ last.result.sessionId = last.session_id
        /\ last.reposCommit
        /\ last.gitFault = "raise" =>
              /\ last.result.hasPendingChanges = "false"
              /\ repos[last.project].head = last.agentSaw.head

\* git status raised after an agent run that exited with status 0 and left
\* changes: they stay uncommitted, and the execution is reported a success
C26_StatusRaisedAfterSuccess ==
    /\ last.op = "execute" /\ last.agent = "ok" /\ last.gitFault = "raise"
    /\ last.edits # {}
    /\ last.result.success /\ last.reposCommit
    /\ last.result.hasPendingChanges = "false"
    /\ repos[last.project].changes # {}

\* C27: every execute_prompt call, however it returns, requested the commit
\* of the session-data volume; the commit of the repos volume is requested
\* only by a call whose agent returned and whose bookkeeping is over
C27_SessionVolumeCommittedOnEveryPath ==
    (last.op = "execute") =>
        /\ last.volumeCommit
        /\ last.reposCommit =>
              /\ last.agent \in {"ok", "fail"}
              /\ (last.agent = "ok") = ("status" \in last.ops)

-----------------------------------------------------------------------------
(* The claims about the prompt store.                                      *)

\* the ids of a prompt list, in order
IdsOf(prompts) == [i \in DOMAIN prompts |-> prompts[i].id]

\* C28: a scheduler cycle that loaded a non-empty prompt set writes nothing
\* to the store while it goes through the prompts, and ends by writing the
\* set once, after the last prompt, with every prompt it loaded
C28_WrittenBackOnceAtTheEnd ==
    [][/\ (sched.pc = "loop" /\ sched'.pc = "loop" /\ budget'.syncs = budget.syncs) =>
              store' = store
       /\ (sched.pc = "loop" /\ sched'.pc = "idle") =>
              /\ sched.i > Len(sched.prompts)
              /\ cycle'.saved
              /\ store'.prompts = cycle'.written
              /\ IdsOf(cycle'.written) = IdsOf(cycle'.loaded)]_vars

\* the cycle loaded a set that no sync request of the model brings
LoadedBeforeAnySync ==
    IdsOf(cycle.loaded) \notin { IdsOf(req) : req \in SyncRequests }

\* C29: nothing guards the prompt store against a lost update: a sync during
\* a cycle replaces the set and the cycle goes on with the set it loaded,
\* and the write-back replaces whatever the store holds by that set
C29_WriteBackReplacesWhateverIsStored ==
    [][/\ (sched.pc = "loop" /\ budget'.syncs < budget.syncs) =>
              /\ store'.prompts \in SyncRequests
              /\ sched' = sched
       /\ (sched.pc = "loop" /\ sched'.pc = "idle" /\ cycle'.saved) =>
              /\ store'.prompts = sched.prompts
              /\ IdsOf(store'.prompts) = IdsOf(cycle.loaded)]_vars

\* a sync came while a cycle was going through the set it had loaded, and
\* the cycle's write-back has put that set in the place of the synced one
C29_SyncedSetLost ==
    /\ sched.pc = "idle" /\ cycle.outcome = "summary" /\ cycle.saved
    /\ budget.syncs < MaxSyncs
    /\ LoadedBeforeAnySync
    /\ store.prompts = cycle.written
    /\ IdsOf(store.prompts) = IdsOf(cycle.loaded)

-----------------------------------------------------------------------------
(* The claim about the time limits.                                        *)

\* C30: the timeouts are strictly nested (agent below execute_prompt,
\* execute_prompt below the scheduler cycle that waits for it), so that no
\* cycle is stopped at its timeout before it has recorded the execution it
\* waited for and written the prompt set back
C30_TimeoutsStrictlyNested ==
    /\ AgentTimeout < ExecutePromptTimeout
    /\ cycle.outcome # "killed"

-----------------------------------------------------------------------------
(* The claims about monthly and yearly recurrence and about the offsets.   *)

\* the converted time of day of calcPrompt at calcNow
CalcUtc ==
    ToUtc(calcPrompt.timeOfDay[1], calcPrompt.timeOfDay[2],
          GetTimezoneOffset(calcPrompt.timezone, calcNow, tzdata))

\* the anchor: calcNow at the converted time, moved by the day offset
CalcAnchor ==
    AddDays(ReplaceTime(calcNow, CalcUtc.utc_hour, CalcUtc.utc_minute).value,
            CalcUtc.day_offset)

\* the month after the anchor's
CalcFollowingMonth ==
    IF CalcAnchor.month = 12 THEN <<CalcAnchor.year + 1, 1>>
    ELSE <<CalcAnchor.year, CalcAnchor.month + 1>>

\* C31: a monthly prompt whose dayOfMonth exists in the anchor's month and in
\* the following one gets that day of the anchor's month at the converted
\* time when that instant is after now, otherwise the same day of the
\* following month (January of the next year after December), and the
\* instant it gets is later than now
C31_MonthlyThisMonthOrNext ==
    (/\ calcPc # "start"
     /\ calcPrompt.scheduleType = "monthly"
     /\ calcPrompt.dayOfMonth # Missing
     /\ calcPrompt.dayOfMonth <= DaysInMonth(CalcAnchor.year, CalcAnchor.month)
     /\ calcPrompt.dayOfMonth <= DaysInMonth(CalcFollowingMonth[1], CalcFollowingMonth[2])) =>
        /\ ~calcResult.raised
        /\ LET first == [CalcAnchor EXCEPT !.day = calcPrompt.dayOfMonth]
               second == [first EXCEPT !.year = CalcFollowingMonth[1],
                                       !.month = CalcFollowingMonth[2]]
           IN  InstantOf(calcResult.value) =
                   IF Stamp(first) > Stamp(calcNow) THEN first ELSE second
        /\ Stamp(InstantOf(calcResult.value)) > Stamp(calcNow)

\* C32: a yearly prompt gets January 1 of the current year at the converted
\* UTC time when that instant is after now, otherwise January 1 of the next
\* year, and the instant it gets is later than now, whatever the offset
C32_YearlyThisYearOrNext ==
    (calcPc # "start" /\ calcPrompt.scheduleType = "yearly") =>
        /\ ~calcResult.raised
        /\ LET first == DateTime(calcNow.year, 1, 1, CalcUtc.utc_hour,
                                 CalcUtc.utc_minute, 0)
               second == [first EXCEPT !.year = calcNow.year + 1]
           IN  InstantOf(calcResult.value) =
                   IF Stamp(first) > Stamp(calcNow) THEN first ELSE second
        /\ Stamp(InstantOf(calcResult.value)) > Stamp(calcNow)

-----------------------------------------------------------------------------
(* The local-to-UTC conversion of lines 972-992 alone, over the offsets of *)
(* the world's zones: every multiple of a quarter of an hour from -12:00   *)
(* to +14:00.  calcPrompt holds the time of day and the offset (minutes).  *)

ConvOffsets == { 15 * k : k \in -48..56 }

ConvHours == 0..23

ConvMinutes == 0..59

ConvInit ==
    /\ calcPc = "convert"
    /\ calcPrompt \in { [timeOfDay |-> <<h, m>>, offset_hours |-> off] :
                          h \in ConvHours, m \in ConvMinutes, off \in ConvOffsets }
    /\ calcNow = NoValue
    /\ tzdata = TRUE
    /\ calcResult = Raised("none")
    /\ calcDue = FALSE
    /\ repos = [p \in Projects |-> AbsentRepo]
    /\ upstream = [p \in Projects |-> {BaseCommit}]
    /\ commitCount = 0
    /\ last = NoOp
    /\ jobs = NoJobs
    /\ SchedOff

\* lines 972-992 for the time of day and the offset of calcPrompt
ConvToUtc ==
    /\ calcPc = "convert"
    /\ calcResult' = Returned(ToUtc(calcPrompt.timeOfDay[1], calcPrompt.timeOfDay[2],
                                    calcPrompt.offset_hours))
    /\ calcPc' = "converted"
    /\ UNCHANGED <<calcPrompt, calcNow, tzdata, calcDue, repoVars, schedVars, jobVars>>

ConvNext == ConvToUtc

SpecConv == ConvInit /\ [][ConvNext]_vars

\* C33: for every offset that is a multiple of 15 minutes from -12:00 to
\* +14:00 and every local hour and minute, the UTC hour, minute and day
\* shift computed are the local time minus the offset, with the hour in
\* 0..23 and the minute in 0..59
C33_ConversionExact ==
    (calcPc = "converted") =>
        LET u == calcResult.value
        IN  /\ u.utc_hour \in 0..23
            /\ u.utc_minute \in 0..59
            /\ u.day_offset \in {-1, 0, 1}
            /\ (u.day_offset * 24 + u.utc_hour) * 60 + u.utc_minute
                 = calcPrompt.timeOfDay[1] * 60 + calcPrompt.timeOfDay[2]
                   - calcPrompt.offset_hours

\* ZoneInfo cannot resolve the name of calcPrompt: no database, or a name
\* the database does not hold
CalcZoneUnresolved ==
    ~tzdata \/ ZoneInfoOffset(calcPrompt.timezone, calcNow).raised

\* a zone the database resolves to the offset the table of lines 935-944
\* holds for the name of calcPrompt, or to 0 when the table does not hold it
CalcTableZone ==
    IF calcPrompt.timezone \in {"America/Los_Angeles", "Asia/Tokyo"}
    THEN calcPrompt.timezone
    ELSE "UTC"

\* C34: when the timezone name cannot be resolved the lookup raises nothing
\* and gives the offset of the fixed table, or 0 for a name the table does
\* not hold: calculate_next_run_at returns what it returns for a resolved
\* zone of that offset, an instant wherever that is one
C34_LookupFailsSoft ==
    (/\ calcPc # "start"
     /\ CalcZoneUnresolved
     /\ calcPrompt.timezone = "America/Los_Angeles" => ~InDst(calcNow)) =>
        /\ GetTimezoneOffset(calcPrompt.timezone, calcNow, tzdata) =
              ZoneInfoOffset(CalcTableZone, calcNow).value
        /\ calcResult = CalculateNextRunAt([calcPrompt EXCEPT !.timezone = CalcTableZone],
                                           calcNow, TRUE)
        /\ calcResult.raised =>
              /\ calcResult.exc = "ValueError"
              /\ calcPrompt.scheduleType = "monthly"
              /\ calcPrompt.dayOfMonth > 28

\* without a database, a daily prompt in America/Los_Angeles got the instant
\* of the table's -8 hours, and one in a zone the table lacks that of UTC
C34_TableOffsetUsed ==
    /\ calcPc = "calculated" /\ ~tzdata
    /\ calcPrompt.scheduleType = "daily" /\ calcPrompt.timeOfDay = <<8, 45>>
    /\ calcNow = DateTime(2024, 1, 15, 0, 0, 0)
    /\ \/ /\ calcPrompt.timezone = "America/Los_Angeles"
          /\ calcResult = Returned(IsoFormat(DateTime(2024, 1, 15, 16, 45, 0)))
       \/ /\ calcPrompt.timezone = "Asia/Kolkata"
          /\ calcResult = Returned(IsoFormat(DateTime(2024, 1, 15, 8, 45, 0)))

-----------------------------------------------------------------------------
\* The claims about pushing

\* the last operation was a git push that the remote refused
PushFailed == last.op = "push" /\ last.pushed /\ ~last.result.success

\* C35: a push that fails returns success = false with the text git push
\* wrote (or "Push failed" when it wrote nothing), leaves upstream and the
\* working copy with its unpushed commits as they were, and a push that
\* follows it runs git push again over the same commits
C35_FailedPushChangesNothing ==
    [][ /\ (last'.op = "push" /\ last'.pushed /\ ~last'.result.success) =>
              /\ upstream' = upstream
              /\ repos' = repos
              /\ GitLogUnpushed(repos'[last'.project]) # {}
              /\ last'.result.pushedCommits = {}
              /\ last'.result.error =
                    (IF last'.stderr # "" THEN last'.stderr ELSE "Push failed")
        /\ (PushFailed /\ last'.op = "push" /\ last'.project = last.project) =>
              /\ last'.pushed
              /\ repos' = repos
              /\ last'.result.success =>
                    /\ last'.result.pushedCommits = GitLogUnpushed(repos[last.project])
                    /\ upstream'[last.project] = repos[last.project].head ]_vars

C35_PushRefusedWithRemoteText ==
    /\ PushFailed
    /\ last.stderr = "remote: rejected"
    /\ last.result.error = "remote: rejected"
    /\ GitLogUnpushed(repos[last.project]) # {}

\* the last operation was a push that succeeded and sent commits
PushSucceeded ==
    last.op = "push" /\ last.result.success /\ last.result.pushedCommits # {}

\* C36: right after a push that returned success with commits in
\* pushedCommits, check_repo_changes on the same project reports no unpushed
\* commits, and a second push returns success with an empty pushedCommits
\* and runs no git push
C36_PushClearsPendingState ==
    [][\A p \in Projects :
        (PushSucceeded /\ last.project = p /\ last'.project = p) =>
            /\ last'.op = "check" => last'.result.unpushedCommits = {}
            /\ last'.op = "push" =>
                  /\ ~last'.pushed
                  /\ last'.result.success
                  /\ last'.result.pushedCommits = {}]_vars

-----------------------------------------------------------------------------
\* The claims about notifications

\* the notifications of the prompt the cycle handled last that were not
\* delivered
FailedNotifications(s) == { k \in DOMAIN s.ntfy : ~s.ntfy[k].delivered }

\* the result of execute_prompt.remote as the step to the primed state saw it
RemoteSeen == IF last'.op = "execute" THEN Returned(last'.result) ELSE Raised("RemoteError")

\* C37: a notification that is not delivered, sent by execute_prompt or by
\* the scheduler, leaves the execution result what the agent's exit made it,
\* leaves the prompt's lastExecution and nextRunAt what the attempt alone
\* makes them (a misconfigured prompt is left as it was), lets the cycle go
\* on with the next prompt, and the cycle then writes the set back
C37_NotificationFailureIsOnlyLogged ==
    [][ /\ (sched.pc = "loop" /\ sched' # sched /\ FailedNotifications(sched') # {}) =>
              LET prompt == sched.prompts[sched.i]
                  attempted == sched'.calls # sched.calls
              IN  /\ sched'.pc = "loop" /\ sched'.i = sched.i + 1
                  /\ \A k \in FailedNotifications(sched') :
                        sched'.ntfy[k].by = "execute_prompt" =>
                            /\ last'.op = "execute"
                            /\ last'.result.success <=> last'.agent = "ok"
                            /\ last'.result.hasPendingChanges \in {"true", "false"}
                  /\ attempted =>
                        \E d \in ExecMinutes :
                            sched'.prompts[sched.i] =
                                AttemptPrompt(prompt, sched.now, RemoteSeen,
                                              AddMinutes(sched.now, d), tzdata).prompt
                  /\ ~attempted => sched'.prompts = sched.prompts
                  /\ \A j \in DOMAIN sched.prompts :
                        j # sched.i => sched'.prompts[j] = sched.prompts[j]
        /\ (sched.pc = "loop" /\ FailedNotifications(sched) # {}
                /\ sched.i > Len(sched.prompts) /\ sched'.pc = "idle") =>
              /\ store'.prompts = sched.prompts
              /\ cycle'.saved /\ cycle'.outcome = "summary" ]_vars

C37_BothNotificationsFailed ==
    /\ sched.pc = "loop" /\ sched.i > Len(sched.prompts)
    /\ Len(sched.ntfy) = 2
    /\ FailedNotifications(sched) = {1, 2}
    /\ last.op = "execute" /\ last.result.success
    /\ sched.prompts[Len(sched.prompts)].lastExecution.status = "success"

\* the completion notifications of the execution the cycle handled last
Completions(s) == { k \in DOMAIN s.ntfy : s.ntfy[k].kind = "completion" }

\* C38: for one scheduled execution the scheduler sends its completion
\* notification only if execute_prompt sent none, so at most one completion
\* notification is delivered
C38_AtMostOneCompletionNotification ==
    sched.ntfy_topic # "" =>
        /\ (\E k \in Completions(sched) : sched.ntfy[k].by = "scheduler") =>
              ~(\E k \in Completions(sched) : sched.ntfy[k].by = "execute_prompt")
        /\ Cardinality({ k \in Completions(sched) : sched.ntfy[k].delivered }) <= 1

-----------------------------------------------------------------------------
\* The claims about what a cycle writes

\* the fields of a prompt the scheduler may set
SchedulerFields == {"lastExecution", "nextRunAt"}

\* whether the ids of the sequence calls include id
HandedOver(calls, id) == \E k \in DOMAIN calls : calls[k] = id

\* C39: the set a cycle writes back has the prompts it loaded, in their
\* order; a prompt that was not handed to execute_prompt (disabled, not due,
\* or without gitRemoteUrl or projectName) is written as loaded, an
\* attempted one differs in lastExecution and nextRunAt at most; and no step
\* of the cycle writes the settings entry
C39_CycleWritesOnlyScheduleFields ==
    [][ /\ (cycle.outcome = "running" /\ cycle'.outcome = "summary") =>
              /\ store'.prompts = cycle'.written
              /\ Len(cycle'.written) = Len(cycle.loaded)
              /\ \A j \in DOMAIN cycle.loaded :
                    LET was == cycle.loaded[j]
                        is == cycle'.written[j]
                    IN  /\ DOMAIN is = DOMAIN was
                        /\ \A f \in DOMAIN was \ SchedulerFields : is[f] = was[f]
                        /\ ~HandedOver(cycle'.calls, was.id) => is = was
        /\ (sched' # sched \/ cycle' # cycle) =>
              /\ store'.settings = store.settings
              /\ store'.prompts # store.prompts => cycle'.outcome = "summary" ]_vars

C39_OnePromptUpdatedOneUntouched ==
    /\ cycle.outcome = "summary"
    /\ Len(cycle.loaded) = 2
    /\ cycle.calls = <<cycle.loaded[2].id>>
    /\ cycle.written[1] = cycle.loaded[1]
    /\ cycle.written[1].enabled /\ cycle.written[1].projectName = ""
    /\ cycle.written[2].lastExecution # cycle.loaded[2].lastExecution
    /\ cycle.written[2].nextRunAt # cycle.loaded[2].nextRunAt

-----------------------------------------------------------------------------
\* The scheduler triggered again and again.  The cron starts a cycle whenever
\* none runs (1072-1082); a cycle in its loop passes a prompt it skips or
\* reports and writes the set back after the last one; a cycle that waits for
\* an execution does not wait for ever: the execution returns, or the cycle
\* is stopped at its timeout.  The store holds no prompt whose
\* calculate_next_run_at raises, so that no cycle is left by a ValueError

LivePromptLists ==
    { l \in PromptLists : \A j \in DOMAIN l : l[j].scheduleType # "monthly" }

LiveInit ==
    /\ SchedInit
    /\ store.prompts \in LivePromptLists

\* the steps a cycle takes by itself or is forced to
CycleStep == CycleSkip \/ CycleMisconfigured \/ CycleEnd \/ CycleKilled

LiveNext == CycleStart \/ CycleStep \/ CycleExecute \/ Tick \/ Sync

SpecLive ==
    /\ LiveInit /\ [][LiveNext]_vars
    /\ WF_vars(CycleStart)
    /\ WF_vars(CycleStep)

\* the ids of the prompts of the pool
PoolIds == {"a", "b", "c", "d", "e", "f", "g"}

\* the stored set holds prompt id, enabled, with gitRemoteUrl and
\* projectName, and its nextRunAt has passed
StoredAndDue(id) ==
    \E j \in DOMAIN store.prompts :
        LET prompt == store.prompts[j]
        IN  /\ prompt.id = id /\ prompt.enabled
            /\ prompt.gitRemoteUrl # "" /\ prompt.projectName # ""
            /\ IsPromptDue(prompt, clock)

\* a cycle handed prompt id to execute_prompt
HandedToExecutePrompt(id) ==
    HandedOver(sched.calls, id) \/ HandedOver(cycle.calls, id)

\* C40: with the cycle triggered again and again, a stored prompt that is
\* enabled, has gitRemoteUrl and projectName and whose nextRunAt has passed
\* is eventually handed to execute_prompt by some cycle (unless a sync takes
\* it out of the set or moves its nextRunAt first)
C40_DuePromptEventuallyExecuted ==
    \A id \in PoolIds :
        StoredAndDue(id) ~> (HandedToExecutePrompt(id) \/ ~StoredAndDue(id))

====
